---- MODULE Spec2Model ----
(***************************************************************************)
(* Model of the agents backend (src/backend/main.py): program validation,  *)
(* the decision step of an agent block, the per-agent step executor, the   *)
(* global game step, the auto-step loop and the game session.              *)
(***************************************************************************)
EXTENDS Integers, Sequences, FiniteSets, TLC

VARIABLES
    request,      \* SpecValidate: the raw program posted to /add-agent
    response,     \* SpecValidate: the reply to that request
    dblock,       \* SpecDecide: the agent block being executed
    doutput,      \* SpecDecide: the provider's final_output
    dresult,      \* SpecDecide: what execute_agent_block returned or raised
    agents,       \* agents: Dict[str, AgentState]
    session,      \* game_session: GameSession
    ticks,        \* the execute_game_step calls in flight: 0 the manual one, l > 0 loop l's
    loops,        \* the auto_step_loop tasks
    direct,       \* the POST /next-step-for-agents call in flight
    reg,          \* the register_agents_in_game call in flight
    cleanup,      \* the cleanup_game_session call in flight
    budget,       \* how many more steps the model lets start
    recorded,     \* SpecStep: every action record appended to past_actions, in order
    last          \* SpecStep: the last request handled, the state before it, its reply

engine_vars == <<agents, session, ticks, loops, direct, reg, cleanup, budget>>
pure_vars == <<request, response, dblock, doutput, dresult, recorded, last>>
vars == <<request, response, dblock, doutput, dresult, recorded, last,
          agents, session, ticks, loops, direct, reg, cleanup, budget>>

(***************************************************************************)
(* Values                                                                  *)
(***************************************************************************)

\* Python's None.
None == "None"

\* Python truthiness of an Optional[str]: None and "" are both falsy.
Truthy(v) == v # None /\ v # ""

\* Range of a sequence.
Range(s) == {s[i] : i \in 1..Len(s)}

(***************************************************************************)
(* Blocks (ActionBlock, AgentBlock, ToolBlock) as records of one shape;    *)
(* the fields a variant does not have hold None / the empty sequence.      *)
(***************************************************************************)

ToolConnection(tool_id, tool_name) == [tool_id |-> tool_id, tool_name |-> tool_name]

ActionBlock(id, action_type, next) ==
    [id |-> id, action_type |-> action_type, next |-> next,
     type |-> "action", tool_type |-> None, tool_connections |-> <<>>]

AgentBlock(id, tool_connections) ==
    [id |-> id, action_type |-> None, next |-> None,
     type |-> "agent", tool_type |-> None, tool_connections |-> tool_connections]

ToolBlock(id, tool_type, next) ==
    [id |-> id, action_type |-> None, next |-> next,
     type |-> "tool", tool_type |-> tool_type, tool_connections |-> <<>>]

ProgramSchema(agent_id, blocks) == [agent_id |-> agent_id, blocks |-> blocks]

(***************************************************************************)
(* Validation                                                              *)
(***************************************************************************)

\* AgentBlock.validate_tool_connections: the field validator of an agent block.
validate_tool_connections_MissingCheck(block) == TRUE

validate_tool_connections(block) ==
    block.type = "agent" => Len(block.tool_connections) # 0

\* A reference check that leaves out the next of tool blocks.
ReferencesExist_NotForTools(block, block_id_set) ==
    IF block.type = "action" /\ Truthy(block.next)
    THEN block.next \in block_id_set
    ELSE IF block.type = "agent"
    THEN \A i \in 1..Len(block.tool_connections) :
            block.tool_connections[i].tool_id \in block_id_set
    ELSE TRUE

\* The reference check of ProgramSchema.validate_blocks for one block:
\* a truthy next of an action or tool block, every tool_id of an agent block.
ReferencesExist(block, block_id_set) ==
    IF block.type \in {"action", "tool"} /\ Truthy(block.next)
    THEN block.next \in block_id_set
    ELSE IF block.type = "agent"
    THEN \A i \in 1..Len(block.tool_connections) :
            block.tool_connections[i].tool_id \in block_id_set
    ELSE TRUE

\* ProgramSchema.validate_blocks: "ok", or the error it raises.
validate_blocks_NoReferenceCheck(v) ==
    IF Len(v) = 0 THEN "Program must have at least one block"
    ELSE IF ~ \E i \in 1..Len(v) : v[i].type = "action" /\ v[i].action_type = "onStart"
    THEN "Program must have at least one 'onStart' action block"
    ELSE IF Len(v) # Cardinality({v[i].id : i \in 1..Len(v)})
    THEN "All block IDs must be unique"
    ELSE "ok"

validate_blocks(v) ==
    IF Len(v) = 0 THEN "Program must have at least one block"
    ELSE IF ~ \E i \in 1..Len(v) : v[i].type = "action" /\ v[i].action_type = "onStart"
    THEN "Program must have at least one 'onStart' action block"
    ELSE IF Len(v) # Cardinality({v[i].id : i \in 1..Len(v)})
    THEN "All block IDs must be unique"
    ELSE IF \E i \in 1..Len(v) : ~ReferencesExist(v[i], {v[j].id : j \in 1..Len(v)})
    THEN "Block references non-existent block"
    ELSE "ok"

\* Parsing the request body into a ProgramSchema: every block is parsed (and its
\* field validators run) before the validator of the blocks field runs.
ValidateProgram(program) ==
    IF \E i \in 1..Len(program.blocks) : ~validate_tool_connections(program.blocks[i])
    THEN "Agent block must have at least one tool connection"
    ELSE validate_blocks(program.blocks)

(***************************************************************************)
(* Agent run state                                                         *)
(***************************************************************************)

\* AgentState(agent_id, program, current_node): the other fields at their defaults.
AgentState(agent_id, program, current_node) ==
    [agent_id |-> agent_id, program |-> program, current_node |-> current_node,
     current_plan |-> None, last_agent_block |-> None,
     last_executed_tool_block |-> None, past_actions |-> <<>>]

\* The first onStart action block of a program (add_agent's search loop).
OnStartBlock(blocks) ==
    LET idx == {i \in 1..Len(blocks) :
                    blocks[i].type = "action" /\ blocks[i].action_type = "onStart"}
    IN  blocks[CHOOSE i \in idx : \A j \in idx : i <= j]

\* No reply has been sent yet.
NoReply == [status |-> 0, detail |-> ""]

\* The agents dictionary and the reply after POST /add-agent with a raw program.
\* A body that fails validation never reaches the handler (422).
AddAgentReply_NoDuplicateCheck(ags, program) ==
    IF ValidateProgram(program) # "ok" THEN [status |-> 422, detail |-> ValidateProgram(program)]
    ELSE [status |-> 200, detail |-> "added"]

AddAgentReply(ags, program) ==
    IF ValidateProgram(program) # "ok" THEN [status |-> 422, detail |-> ValidateProgram(program)]
    ELSE IF program.agent_id \in DOMAIN ags THEN [status |-> 400, detail |-> "already exists"]
    ELSE [status |-> 200, detail |-> "added"]

\* An agent that starts on its onStart block instead of on that block's successor.
AddAgentState_CursorAtEntry(ags, program) ==
    IF AddAgentReply(ags, program).status # 200 THEN ags
    ELSE [a \in DOMAIN ags \cup {program.agent_id} |->
            IF a = program.agent_id
            THEN AgentState(a, program, OnStartBlock(program.blocks).id)
            ELSE ags[a]]

AddAgentState(ags, program) ==
    IF AddAgentReply(ags, program).status # 200 THEN ags
    ELSE [a \in DOMAIN ags \cup {program.agent_id} |->
            IF a = program.agent_id
            THEN AgentState(a, program, OnStartBlock(program.blocks).next)
            ELSE ags[a]]

(***************************************************************************)
(* The decision step: execute_agent_block after the provider has answered.  *)
(***************************************************************************)

\* A JSON value of a parameter: absent from the dict, a number, or a string.
Absent == [kind |-> "absent", n |-> 0]
Num(n) == [kind |-> "num", n |-> n]
Str == [kind |-> "str", n |-> 0]
\* Another string, different from Str.
Str2 == [kind |-> "str", n |-> 1]

\* A parameters dict over the keys the engine reads; {} has every key absent.
Params(x, y, plan) == [x |-> x, y |-> y, plan |-> plan]
EmptyParams == Params(Absent, Absent, Absent)
ParamsTruthy(parameters) == parameters # EmptyParams

\* An "action" value that is valid JSON but not a string (a number, null).
NonStr == "<non-string>"

\* The provider's final_output: whether it is wrapped in a markdown code fence, and its
\* payload: a JSON object, another JSON value, or text that is not JSON.
FinalOutput(fence, json, action, parameters, reasoning, text) ==
    [parameters |-> parameters, fence |-> fence, json |-> json, action |-> action,
     reasoning |-> reasoning, text |-> text]
JsonObject(fence, action, parameters, reasoning) ==
    FinalOutput(fence, "object", action, parameters, reasoning, "")
JsonOther(fence) == FinalOutput(fence, "other", "", EmptyParams, None, "")
NotJson(fence, text) == FinalOutput(fence, "invalid", "", EmptyParams, None, text)

\* str.strip() and str.lower() on the texts of the model.
Strip(t) == CASE t = " move\n" -> "move"
              [] t = " Attack " -> "Attack"
              [] OTHER -> t
Lower(t) == CASE t = "MOVE" -> "move"
              [] t = "Attack" -> "attack"
              [] t = "I will Move" -> "i will move"
              [] OTHER -> t

\* What execute_agent_block returns (status "ok") or raises (status "raise").
Returned(tool_choice, parameters, reasoning) ==
    [status |-> "ok", parameters |-> parameters, reasoning |-> reasoning,
     tool_choice |-> tool_choice, exc |-> None]
NoResult ==
    [status |-> "none", parameters |-> EmptyParams, reasoning |-> None,
     tool_choice |-> None, exc |-> None]
Raised(exc) ==
    [status |-> "raise", parameters |-> EmptyParams, reasoning |-> None,
     tool_choice |-> None, exc |-> exc]

\* max(-max_move, min(max_move, v))
max_move == 25
ClampValue_UpperOnly(v) ==
    IF v.kind # "num" THEN v ELSE Num(IF v.n > max_move THEN max_move ELSE v.n)

ClampValue(v) ==
    IF v.kind # "num" THEN v
    ELSE Num(IF v.n > max_move THEN max_move ELSE IF v.n < -max_move THEN -max_move ELSE v.n)

\* Lines 584-596: the clamp of a move's x and y; min() of a number and a string
\* raises TypeError.
ClampMove(tool_choice, parameters, reasoning) ==
    IF tool_choice = "move" /\ ParamsTruthy(parameters)
    THEN IF parameters.x.kind = "str" \/ parameters.y.kind = "str"
         THEN Raised("TypeError")
         ELSE Returned(tool_choice,
                       [parameters EXCEPT !.x = ClampValue(@), !.y = ClampValue(@)],
                       reasoning)
    ELSE Returned(tool_choice, parameters, reasoning)

\* Lines 568-605: strip the fence, json.loads, read reasoning/action/parameters,
\* clamp; on JSONDecodeError the whole stripped output, lowered, is the tool name.
ParseResponse(out) ==
    IF out.json = "invalid"
    THEN Returned(IF out.fence THEN "<fence>" \o out.text \o "<fence>" ELSE Lower(Strip(out.text)),
                  EmptyParams, "Failed to parse response")
    ELSE IF out.json = "other" \/ out.action = NonStr
    THEN Raised("AttributeError")
    ELSE ClampMove(Lower(out.action), out.parameters,
                   IF out.reasoning = None THEN "No reasoning provided" ELSE out.reasoning)

\* available_tools = [conn.tool_name for conn in agent_block.tool_connections]
AvailableTools(agent_block) ==
    [i \in 1..Len(agent_block.tool_connections) |-> agent_block.tool_connections[i].tool_name]

\* Lines 541-546: the MCP servers, one for the plan tool and one for the search tool.
PlanServer == "raptors65/hack-princeton-mcp"
SearchServer == "tsion/brave-search-mcp"

\* A list of servers built from has_mcp_tools alone: both servers as soon as
\* either tool is offered.
McpServers_AnyMcpTool(agent_block) ==
    IF {"plan", "search"} \cap Range(AvailableTools(agent_block)) # {}
    THEN <<PlanServer, SearchServer>>
    ELSE <<>>

McpServers(agent_block) ==
    (IF "plan" \in Range(AvailableTools(agent_block)) THEN <<PlanServer>> ELSE <<>>)
        \o (IF "search" \in Range(AvailableTools(agent_block)) THEN <<SearchServer>> ELSE <<>>)

\* Lines 554-559: the arguments of llm_provider.run that depend on the bindings;
\* an empty list of servers is passed as None (given is FALSE).
ProviderRun(agent_block) ==
    [op |-> "run",
     mcp_servers |-> [given |-> McpServers(agent_block) # <<>>,
                      list |-> McpServers(agent_block)]]

\* No call of the provider yet.
NoRun == [op |-> "none", mcp_servers |-> [given |-> FALSE, list |-> <<>>]]

\* Lines 607-612: a tool that is not offered is replaced by the first offered one.
SelectTool_KeepsChoice(agent_block, parsed) == parsed

SelectTool(agent_block, parsed) ==
    IF parsed.status = "ok" /\ parsed.tool_choice \notin Range(AvailableTools(agent_block))
    THEN Returned(AvailableTools(agent_block)[1], EmptyParams, parsed.reasoning)
    ELSE parsed

\* execute_agent_block from the provider's answer on.
DecisionResult(agent_block, out) == SelectTool(agent_block, ParseResponse(out))

(***************************************************************************)
(* The step executor: next_step_for_agents, split at its one suspension    *)
(* point, the provider call inside execute_agent_block.                    *)
(***************************************************************************)

MAX_ACTION_HISTORY == 5

\* The first block of a sequence that satisfies a test, as the search loops of
\* the code find it; NoBlock when there is none.
NoBlock == [id |-> None, action_type |-> None, next |-> None,
            type |-> "none", tool_type |-> None, tool_connections |-> <<>>]
FirstBlock(blocks, Test(_)) ==
    LET idx == {i \in 1..Len(blocks) : Test(blocks[i])}
    IN  IF idx = {} THEN NoBlock ELSE blocks[CHOOSE i \in idx : \A j \in idx : i <= j]

BlockById(blocks, id) == FirstBlock(blocks, LAMBDA b : b.id = id)

\* f"on{action_occurred.capitalize()}"
TriggerActionType(action_occurred) ==
    IF action_occurred = "attacked" THEN "onAttacked" ELSE "on" \o action_occurred

\* Lines 1069-1081: the node a trigger switches to.
NodeAfterTrigger_ClearsCursor(state, action_occurred) ==
    LET action_block == FirstBlock(state.program.blocks,
                            LAMBDA b : b.type = "action"
                                       /\ b.action_type = TriggerActionType(action_occurred))
    IN  IF action_occurred # None /\ action_block # NoBlock
        THEN action_block.next
        ELSE state.current_node

NodeAfterTrigger(state, action_occurred) ==
    LET action_block == FirstBlock(state.program.blocks,
                            LAMBDA b : b.type = "action"
                                       /\ b.action_type = TriggerActionType(action_occurred))
    IN  IF action_occurred # None /\ action_block # NoBlock /\ Truthy(action_block.next)
        THEN action_block.next
        ELSE state.current_node

\* Lines 1083-1095: the fallback to the last agent block when there is no node.
NodeAfterFallback(state, node) ==
    IF Truthy(node) THEN node
    ELSE IF Truthy(state.last_agent_block) THEN state.last_agent_block
    ELSE None

\* Lines 1066-1119: the step up to the provider call. kind is "await" (the provider
\* has been called for agent block `block`), "noaction" (returned with no action)
\* or "raise" (HTTPException with `status`); `state` is the agent's state then.
StepBegin_TracksAnyBlock(state, action_occurred) ==
    LET node == NodeAfterFallback(state, NodeAfterTrigger(state, action_occurred))
        moved == [state EXCEPT !.current_node = node]
        current_block == BlockById(state.program.blocks, node)
    IN  IF ~Truthy(node)
        THEN [block |-> None, status |-> 200, kind |-> "noaction", state |-> state]
        ELSE IF current_block = NoBlock
        THEN [block |-> None, status |-> 500, kind |-> "raise", state |-> moved]
        ELSE IF current_block.type # "agent"
        THEN [block |-> None, status |-> 400, kind |-> "raise",
              state |-> [moved EXCEPT !.last_agent_block = current_block.id]]
        ELSE [block |-> current_block.id, status |-> 200, kind |-> "await",
              state |-> [moved EXCEPT !.last_agent_block = current_block.id]]

StepBegin(state, action_occurred) ==
    LET node == NodeAfterFallback(state, NodeAfterTrigger(state, action_occurred))
        moved == [state EXCEPT !.current_node = node]
        current_block == BlockById(state.program.blocks, node)
    IN  IF ~Truthy(node)
        THEN [block |-> None, status |-> 200, kind |-> "noaction", state |-> state]
        ELSE IF current_block = NoBlock
        THEN [block |-> None, status |-> 500, kind |-> "raise", state |-> moved]
        ELSE IF current_block.type # "agent"
        THEN [block |-> None, status |-> 400, kind |-> "raise", state |-> moved]
        ELSE [block |-> current_block.id, status |-> 200, kind |-> "await",
              state |-> [moved EXCEPT !.last_agent_block = current_block.id]]

\* Lines 1130-1139: the tool block of the chosen tool.
ChosenToolBlock(blocks, current_block, tool_choice) ==
    LET conns == current_block.tool_connections
        idx == {i \in 1..Len(conns) : conns[i].tool_name = tool_choice}
    IN  IF idx = {} THEN NoBlock
        ELSE BlockById(blocks, conns[CHOOSE i \in idx : \A j \in idx : i <= j].tool_id)

ActionRecord(decision) ==
    [parameters |-> decision.parameters, action |-> decision.tool_choice,
     reasoning |-> decision.reasoning]

\* Lines 1162-1166: append and keep the most recent MAX_ACTION_HISTORY.
AppendHistory_KeepsOldest(past_actions, record) ==
    LET all == Append(past_actions, record)
    IN  IF Len(all) > MAX_ACTION_HISTORY THEN SubSeq(all, 1, MAX_ACTION_HISTORY) ELSE all

AppendHistory(past_actions, record) ==
    LET all == Append(past_actions, record)
    IN  IF Len(all) > MAX_ACTION_HISTORY
        THEN SubSeq(all, Len(all) - MAX_ACTION_HISTORY + 1, Len(all))
        ELSE all

\* The text of a plan parameter, as current_plan holds it.
PlanText(plan) == IF plan = Str THEN "plan" ELSE "plan2"

\* A step that never stores a plan.
PlanAfterDecision_NeverStored(current_plan, decision) == current_plan

\* Lines 1147-1150: the plan of a plan action is stored if its parameters have one.
PlanAfterDecision(current_plan, decision) ==
    IF decision.tool_choice = "plan" /\ decision.parameters.plan # Absent
    THEN PlanText(decision.parameters.plan)
    ELSE current_plan

\* Lines 1147-1175: the agent's state after a decision for tool block `tool`.
StateAfterDecision_CursorAtTool(state, decision, tool) ==
    [state EXCEPT
        !.current_plan = PlanAfterDecision(@, decision),
        !.past_actions = AppendHistory(@, ActionRecord(decision)),
        !.last_executed_tool_block = tool.id,
        !.current_node = tool.id]

StateAfterDecision(state, decision, tool) ==
    [state EXCEPT
        !.current_plan = PlanAfterDecision(@, decision),
        !.past_actions = AppendHistory(@, ActionRecord(decision)),
        !.last_executed_tool_block = tool.id,
        !.current_node = tool.next]

\* Lines 1122-1187: the step from the provider's answer on, for the agent block
\* `block` that StepBegin resolved. kind is "action" (returned a ToolAction) or
\* "raise" (execute_agent_block raised `exc`, or HTTPException 500, or the block
\* found is an agent block, which has no next: AttributeError at line 1169, after
\* the plan, the history and last_executed_tool_block have been written).
StepFinish(state, block, out) ==
    LET current_block == BlockById(state.program.blocks, block)
        decision == DecisionResult(current_block, out)
        tool == ChosenToolBlock(state.program.blocks, current_block, decision.tool_choice)
    IN  IF decision.status = "raise"
        THEN [kind |-> "raise", exc |-> decision.exc, state |-> state, decision |-> decision]
        ELSE IF tool = NoBlock
        THEN [kind |-> "raise", exc |-> "HTTPException", state |-> state, decision |-> decision]
        ELSE IF tool.type = "agent"
        THEN [kind |-> "raise", exc |-> "AttributeError",
              state |-> [StateAfterDecision(state, decision, tool)
                            EXCEPT !.current_node = state.current_node],
              decision |-> decision]
        ELSE [kind |-> "action", exc |-> None, state |-> StateAfterDecision(state, decision, tool),
              decision |-> decision]

(***************************************************************************)
(* The game session, the global game step and the auto-step loop.          *)
(***************************************************************************)

DEFAULT_STEP_DELAY == 6

MaxSteps == 3
MaxLoops == 2

AgentOrder == <<"a1", "a2">>
AgentIds == Range(AgentOrder)
LoopIds == 1..MaxLoops

\* The keys of a dictionary in iteration order.
Keys(S) == SelectSeq(AgentOrder, LAMBDA a : a \in S)

\* GameSession.__init__
GameSession ==
    [active |-> FALSE, registered_agents |-> {}, step_count |-> 0,
     auto_stepping |-> FALSE, step_delay |-> DEFAULT_STEP_DELAY]

\* An exception: an HTTPException with its status code, or another Exception.
HTTPException(status, detail) == [status |-> status, detail |-> detail, http |-> TRUE]
Exception(detail) == [status |-> 0, detail |-> detail, http |-> FALSE]

\* The per-agent result dictionaries of process_single_agent_step.
ActionEntry(action, parameters, next_node) ==
    [kind |-> "action", parameters |-> parameters, action |-> action,
     next_node |-> next_node, error |-> None, skipped |-> FALSE]
NoActionEntry(next_node) ==
    [kind |-> "noaction", parameters |-> EmptyParams, action |-> None,
     next_node |-> next_node, error |-> None, skipped |-> FALSE]
ErrorEntry(error, skipped) ==
    [kind |-> "error", parameters |-> EmptyParams, action |-> None,
     next_node |-> None, error |-> error, skipped |-> skipped]

\* What a process_single_agent_step task ends with: the tuple (agent_id, entry),
\* or an exception that escaped it.
Tuple(entry) == [entry |-> entry, raised |-> FALSE]
Escaped == [entry |-> ErrorEntry("escaped", FALSE), raised |-> TRUE]
Pending == [entry |-> ErrorEntry("pending", FALSE), raised |-> FALSE]

\* Lines 815-824: the except clauses of process_single_agent_step.
CaptureException_NoSkippedFlag(e) == Tuple(ErrorEntry(e.detail, FALSE))

CaptureException_OnlyHTTP(e) ==
    IF e.http /\ e.status = 408 THEN Tuple(ErrorEntry("timeout", TRUE))
    ELSE IF e.http THEN Tuple(ErrorEntry(e.detail, FALSE))
    ELSE Escaped

CaptureException(e) ==
    IF e.http /\ e.status = 408 THEN Tuple(ErrorEntry("timeout", TRUE))
    ELSE IF e.http THEN Tuple(ErrorEntry(e.detail, FALSE))
    ELSE Tuple(ErrorEntry(e.detail, FALSE))

\* Lines 773-775: whether the batch of game states holds this agent's state.
HasGameState_WholeBatch(agent_id, game_states, registered) == game_states = registered

HasGameState(agent_id, game_states, registered) == agent_id \in game_states

\* One process_single_agent_step task of a game step.
Task(pc, block, decision, next_node, outcome, sent, result) ==
    [block |-> block, decision |-> decision, next_node |-> next_node, pc |-> pc,
     outcome |-> outcome, sent |-> sent, result |-> result]
NewTask == Task("new", None, NoResult, None, "pending", FALSE, Pending)
DoneTask(task, outcome, result) ==
    [task EXCEPT !.pc = "done", !.outcome = outcome, !.result = result]

\* One execute_game_step call.
IdleTick == [game_states |-> {}, registered |-> {}, pc |-> "idle", tasks |-> <<>>]
NewTick(registered) ==
    [game_states |-> {}, registered |-> registered, pc |-> "fetch", tasks |-> <<>>]

\* Lines 867-875: the results dictionary built from what the tasks ended with.
StepResults(tick) ==
    [a \in {b \in tick.registered : ~tick.tasks[b].result.raised} |->
        tick.tasks[a].result.entry]

\* One auto_step_loop task.
NoLoop == [pc |-> "none", sleep_for |-> 0, step_duration |-> 0]

\* The provider's answers: a final_output, a timeout (HTTPException 408), an error.
Answer(kind, out) == [kind |-> kind, out |-> out]
EngineOutputs ==
    {JsonObject(FALSE, "move", Params(Num(5), Num(-10), Absent), "r"),
     JsonObject(FALSE, "attack", EmptyParams, "r"),
     JsonOther(FALSE)}
Answers ==
    {Answer("output", o) : o \in EngineOutputs}
    \cup {Answer("timeout", JsonOther(FALSE)), Answer("error", JsonOther(FALSE))}

\* The exception a provider answer or a failed decision raises.
AnswerException(answer) ==
    IF answer.kind = "timeout" THEN HTTPException(408, "LLM request timed out")
    ELSE Exception("provider error")

\* The programs agents are added with; the last one does not pass validation.
ProgramA(agent_id) ==
    ProgramSchema(agent_id,
        <<ActionBlock("e1", "onStart", "D"),
          ActionBlock("e2", "onAttacked", None),
          AgentBlock("D", <<ToolConnection("T1", "move"), ToolConnection("T2", "attack")>>),
          ToolBlock("T1", "move", "D"),
          ToolBlock("T2", "attack", None)>>)
ProgramB(agent_id) ==
    ProgramSchema(agent_id,
        <<ActionBlock("e1", "onStart", ""),
          ActionBlock("e2", "onAttacked", "D2"),
          AgentBlock("D2", <<ToolConnection("T3", "attack")>>),
          ToolBlock("T3", "attack", None)>>)
ProgramDangling(agent_id) ==
    ProgramSchema(agent_id,
        <<ActionBlock("e1", "onStart", "D"),
          AgentBlock("D", <<ToolConnection("T1", "move")>>),
          ToolBlock("T1", "move", "zz")>>)
SamplePrograms(agent_id) == {ProgramA(agent_id), ProgramB(agent_id), ProgramDangling(agent_id)}

(***************************************************************************)
(* The engine's operations. Each action is one run of a handler or task     *)
(* between two suspension points (await).                                   *)
(***************************************************************************)

IdleDirect == [block |-> None, pc |-> "idle", agent |-> None]
IdleReg == [pc |-> "idle", agent |-> None, size |-> 0]
IdleCleanup == [pc |-> "idle", todo |-> <<>>, removal_results |-> <<>>]

EngineInit ==
    /\ agents = <<>>
    /\ session = GameSession
    /\ ticks = [o \in 0..MaxLoops |-> IdleTick]
    /\ loops = [l \in LoopIds |-> NoLoop]
    /\ direct = IdleDirect
    /\ reg = IdleReg
    /\ cleanup = IdleCleanup
    /\ budget = MaxSteps

\* A handler that enters the agent in registered_agents before the registration
\* in the game has succeeded.
RegisteredAfterAdd_BeforeTheCall(registered, agent_id, register_in_game) ==
    IF register_in_game THEN registered \cup {agent_id} ELSE registered

\* Lines 683-692: with register_in_game the handler calls
\* game_client.register_agent(agent_id, username, preferred_zone), which takes
\* (agent_id, username): TypeError, caught by the except clause, so the agent is
\* never added to registered_agents here.
RegisteredAfterAdd(registered, agent_id, register_in_game) == registered

\* POST /add-agent
AddAgent(program, register_in_game) ==
    /\ AddAgentReply(agents, program).status = 200
    /\ agents' = AddAgentState(agents, program)
    /\ session' = [session EXCEPT !.registered_agents =
                        RegisteredAfterAdd(@, program.agent_id, register_in_game)]
    /\ UNCHANGED <<ticks, loops, direct, reg, cleanup, budget>>

\* Position of an agent id in iteration order.
Pos(a) == CHOOSE i \in 1..Len(AgentOrder) : AgentOrder[i] = a

\* A registration loop that goes over every agent id, added or not.
NextUnregistered_AnyAgent(after, registered) ==
    LET idx == {i \in 1..Len(AgentOrder) :
                    /\ i > after
                    /\ AgentOrder[i] \notin registered}
    IN  IF idx = {} THEN None ELSE AgentOrder[CHOOSE i \in idx : \A j \in idx : i <= j]

\* Lines 727-736: the next key after position `after` that is not registered yet.
NextUnregistered(after, registered) ==
    LET idx == {i \in 1..Len(AgentOrder) :
                    /\ i > after
                    /\ AgentOrder[i] \in DOMAIN agents
                    /\ AgentOrder[i] \notin registered}
    IN  IF idx = {} THEN None ELSE AgentOrder[CHOOSE i \in idx : \A j \in idx : i <= j]

\* Lines 754-755
SessionStarted(sess) == [sess EXCEPT !.active = TRUE, !.step_count = 0]

\* Lines 709-719: the status register_agents_in_game answers on arrival, 400
\* when the session is active already or there are no agents.
RegisterReply_NoAgentsCheck(sess, ags) ==
    IF sess.active THEN 400 ELSE 200

RegisterReply(sess, ags) ==
    IF sess.active THEN 400
    ELSE IF DOMAIN ags = {} THEN 400
    ELSE 200

\* POST /register-agents-in-game, up to its first await (or to its end).
RegisterStart ==
    /\ reg.pc = "idle"
    /\ RegisterReply(session, agents) = 200
    /\ LET nxt == NextUnregistered(0, session.registered_agents)
       IN  IF nxt = None
           THEN /\ session' = SessionStarted(session)
                /\ reg' = reg
           ELSE /\ reg' = [pc |-> "await", agent |-> nxt, size |-> Cardinality(DOMAIN agents)]
                /\ session' = session
    /\ UNCHANGED <<agents, ticks, loops, direct, cleanup, budget>>

\* game_client.register_agent returns or raises; the loop goes on to the next
\* await or to the end. A dictionary that grew during the iteration raises
\* RuntimeError out of the handler.
RegisterReturn(ok) ==
    /\ reg.pc = "await"
    /\ LET registered == IF ok THEN session.registered_agents \cup {reg.agent}
                         ELSE session.registered_agents
           nxt == NextUnregistered(Pos(reg.agent), registered)
       IN  IF Cardinality(DOMAIN agents) # reg.size
           THEN /\ session' = [session EXCEPT !.registered_agents = registered]
                /\ reg' = IdleReg
           ELSE IF nxt = None
           THEN /\ session' = SessionStarted([session EXCEPT !.registered_agents = registered])
                /\ reg' = IdleReg
           ELSE /\ session' = [session EXCEPT !.registered_agents = registered]
                /\ reg' = [reg EXCEPT !.agent = nxt]
    /\ UNCHANGED <<agents, ticks, loops, direct, cleanup, budget>>

\* Lines 960-964
SessionCleared(sess) ==
    [sess EXCEPT !.registered_agents = {}, !.active = FALSE, !.step_count = 0]

\* Lines 940-944: the status cleanup_game_session answers on arrival.
CleanupReply(sess) == IF ~sess.active THEN 400 ELSE 200

\* POST /cleanup-game-session, up to its first await (or to its end).
CleanupStart ==
    /\ cleanup.pc = "idle"
    /\ CleanupReply(session) = 200
    /\ LET keys == Keys(session.registered_agents)
           stopped == [session EXCEPT !.auto_stepping = FALSE]
       IN  IF keys = <<>>
           THEN /\ session' = SessionCleared(stopped)
                /\ cleanup' = IdleCleanup
           ELSE /\ session' = stopped
                /\ cleanup' = [pc |-> "await", todo |-> keys, removal_results |-> <<>>]
    /\ UNCHANGED <<agents, ticks, loops, direct, reg, budget>>

\* game_client.remove_agent returns or raises for the first agent still to remove.
CleanupReturn(ok) ==
    /\ cleanup.pc = "await"
    /\ LET results == [a \in DOMAIN cleanup.removal_results \cup {Head(cleanup.todo)} |->
                            IF a = Head(cleanup.todo) THEN ok ELSE cleanup.removal_results[a]]
       IN  IF Tail(cleanup.todo) = <<>>
           THEN /\ session' = SessionCleared(session)
                /\ cleanup' = IdleCleanup
           ELSE /\ session' = session
                /\ cleanup' = [cleanup EXCEPT !.todo = Tail(@), !.removal_results = results]
    /\ UNCHANGED <<agents, ticks, loops, direct, reg, budget>>

\* The smallest free slot for a new loop task; 0 when the model has none left.
FreeLoop ==
    LET free == {l \in LoopIds : loops[l].pc = "none"}
    IN  IF free = {} THEN 0 ELSE CHOOSE l \in free : \A k \in free : l <= k

\* Lines 898-908: the status start_auto_stepping answers, 400 when the session
\* is not active or is auto-stepping already.
StartAutoReply_NoAutoCheck(sess) ==
    IF ~sess.active THEN 400 ELSE 200

StartAutoReply(sess) ==
    IF ~sess.active THEN 400
    ELSE IF sess.auto_stepping THEN 400
    ELSE 200

\* POST /start-auto-stepping
StartAutoStepping(step_delay) ==
    /\ StartAutoReply(session) = 200
    /\ FreeLoop # 0
    /\ session' = [session EXCEPT !.auto_stepping = TRUE,
                                  !.step_delay = IF step_delay = 0 THEN DEFAULT_STEP_DELAY
                                                 ELSE step_delay]
    /\ loops' = [loops EXCEPT ![FreeLoop] = [pc |-> "ready", sleep_for |-> 0,
                                             step_duration |-> 0]]
    /\ UNCHANGED <<agents, ticks, direct, reg, cleanup, budget>>

\* POST /stop-auto-stepping
StopAutoStepping ==
    /\ session' = [session EXCEPT !.auto_stepping = FALSE]
    /\ UNCHANGED <<agents, ticks, loops, direct, reg, cleanup, budget>>

\* A loop that goes on for as long as the session is active.
LoopHead_IgnoresStop(sess) ==
    IF ~sess.active THEN "exit"
    ELSE IF sess.registered_agents = {} THEN "raise"
    ELSE "tick"

\* Line 1022 and lines 835-852: the head of the loop, "exit" when the while
\* condition fails, "raise" when execute_game_step raises before it suspends,
\* "tick" when it gets to fetch the game states.
LoopHead(sess) ==
    IF ~(sess.auto_stepping /\ sess.active) THEN "exit"
    ELSE IF sess.registered_agents = {} THEN "raise"
    ELSE "tick"

\* A delay given in seconds, in thousandths of a second.
Millis(seconds) == seconds * 1000

LoopAfterHead_EndsOnError(sess) ==
    IF LoopHead(sess) = "exit" THEN NoLoop
    ELSE IF LoopHead(sess) = "raise" THEN NoLoop
    ELSE [pc |-> "tick", sleep_for |-> 0, step_duration |-> 0]

LoopAfterHead(sess) ==
    IF LoopHead(sess) = "exit" THEN NoLoop
    ELSE IF LoopHead(sess) = "raise"
         THEN [pc |-> "sleep", sleep_for |-> Millis(sess.step_delay),
               step_duration |-> 0]
    ELSE [pc |-> "tick", sleep_for |-> 0, step_duration |-> 0]

TickAfterHead(sess) ==
    IF LoopHead(sess) = "tick" THEN NewTick(sess.registered_agents) ELSE IdleTick

StepsAfterHead(sess) ==
    IF LoopHead(sess) = "tick" THEN Cardinality(sess.registered_agents) ELSE 0

\* The loop task runs for the first time, or wakes from its sleep.
LoopRun(l) ==
    /\ loops[l].pc \in {"ready", "sleep"}
    /\ budget >= StepsAfterHead(session)
    /\ loops' = [loops EXCEPT ![l] = LoopAfterHead(session)]
    /\ ticks' = [ticks EXCEPT ![l] = TickAfterHead(session)]
    /\ budget' = budget - StepsAfterHead(session)
    /\ UNCHANGED <<agents, session, direct, reg, cleanup>>

\* POST /execute-game-step, up to the await of batch_get_states. A call that is
\* rejected (no active session, no registered agents) changes nothing.
ManualStep ==
    /\ ticks[0].pc = "idle"
    /\ session.active
    /\ session.registered_agents # {}
    /\ budget >= Cardinality(session.registered_agents)
    /\ ticks' = [ticks EXCEPT ![0] = NewTick(session.registered_agents)]
    /\ budget' = budget - Cardinality(session.registered_agents)
    /\ UNCHANGED <<agents, session, loops, direct, reg, cleanup>>

\* batch_get_states returns the states it could fetch; the tasks are created.
FetchReturn(o, states) ==
    /\ ticks[o].pc = "fetch"
    /\ states \subseteq ticks[o].registered
    /\ ticks' = [ticks EXCEPT ![o] = [@ EXCEPT !.pc = "start", !.game_states = states,
                                                !.tasks = [a \in ticks[o].registered |-> NewTask]]]
    /\ UNCHANGED <<agents, session, loops, direct, reg, cleanup, budget>>

\* process_single_agent_step up to the provider call (lines 773-791, 1056-1122).
TaskBegin(tick, a) ==
    LET task == tick.tasks[a]
        begun == StepBegin(agents[a], None)
    IN  IF ~HasGameState(a, tick.game_states, tick.registered)
        THEN DoneTask(task, "nostate", Tuple(ErrorEntry("No game state available", FALSE)))
        ELSE IF a \notin DOMAIN agents
        THEN DoneTask(task, "nobackend", Tuple(ErrorEntry("Agent not in backend", FALSE)))
        ELSE IF begun.kind = "noaction"
        THEN DoneTask(task, "noaction", Tuple(NoActionEntry(None)))
        ELSE IF begun.kind = "raise"
        THEN DoneTask(task, "http_error",
                      CaptureException(HTTPException(begun.status, "step failed")))
        ELSE [task EXCEPT !.pc = "llm", !.block = begun.block]

\* A tick whose tasks step every agent of the agents dictionary, whether the
\* tick has a task for it or not.
TasksStart_StepsEveryAgent(o) ==
    /\ ticks[o].pc = "start"
    /\ ticks' = [ticks EXCEPT ![o] = [@ EXCEPT !.pc = "gather",
                        !.tasks = [a \in ticks[o].registered |-> TaskBegin(ticks[o], a)]]]
    /\ agents' = [a \in DOMAIN agents |-> StepBegin(agents[a], None).state]
    /\ UNCHANGED <<session, loops, direct, reg, cleanup, budget>>

\* gather starts every task; each runs to its first await before anything else
\* that becomes ready (lines 856-863).
TasksStart(o) ==
    /\ ticks[o].pc = "start"
    /\ ticks' = [ticks EXCEPT ![o] = [@ EXCEPT !.pc = "gather",
                        !.tasks = [a \in ticks[o].registered |-> TaskBegin(ticks[o], a)]]]
    /\ agents' = [a \in DOMAIN agents |->
                    IF a \in ticks[o].registered
                       /\ HasGameState(a, ticks[o].game_states, ticks[o].registered)
                    THEN StepBegin(agents[a], None).state
                    ELSE agents[a]]
    /\ UNCHANGED <<session, loops, direct, reg, cleanup, budget>>

\* The exception a failed StepFinish raises.
FinishException(finished) ==
    IF finished.exc = "HTTPException" THEN HTTPException(500, "Tool block not found")
    ELSE Exception(finished.exc)

\* process_single_agent_step from the provider's answer to send_command
\* (lines 1122-1187, 794-800).
TaskAfterAnswer(task, state, answer) ==
    LET finished == StepFinish(state, task.block, answer.out)
    IN  IF answer.kind = "timeout"
        THEN DoneTask(task, "timeout", CaptureException(AnswerException(answer)))
        ELSE IF answer.kind = "error"
        THEN DoneTask(task, "llm_error", CaptureException(AnswerException(answer)))
        ELSE IF finished.kind = "raise"
        THEN DoneTask(task, "parse_error", CaptureException(FinishException(finished)))
        ELSE [task EXCEPT !.pc = "send", !.decision = finished.decision,
                          !.next_node = finished.state.current_node, !.sent = TRUE]

\* A step whose provider call did not answer gives up the block it was at.
StateAfterAnswer_TimeoutLeavesBlock(state, block, answer) ==
    IF answer.kind = "output" THEN StepFinish(state, block, answer.out).state
    ELSE IF answer.kind = "timeout" THEN [state EXCEPT !.current_node = None]
    ELSE state

StateAfterAnswer(state, block, answer) ==
    IF answer.kind = "output" THEN StepFinish(state, block, answer.out).state ELSE state

TaskAnswer(o, a, answer) ==
    /\ ticks[o].pc = "gather"
    /\ a \in ticks[o].registered
    /\ ticks[o].tasks[a].pc = "llm"
    /\ ticks' = [ticks EXCEPT ![o].tasks[a] = TaskAfterAnswer(@, agents[a], answer)]
    /\ agents' = [agents EXCEPT ![a] = StateAfterAnswer(@, ticks[o].tasks[a].block, answer)]
    /\ UNCHANGED <<session, loops, direct, reg, cleanup, budget>>

\* send_command returns or raises (lines 796-807, 822-824).
TaskAfterSend(task, ok) ==
    IF ok
    THEN DoneTask(task, "ok", Tuple(ActionEntry(task.decision.tool_choice,
                                                task.decision.parameters, task.next_node)))
    ELSE DoneTask(task, "send_failed", CaptureException(Exception("send failed")))

TaskSendReturn(o, a, ok) ==
    /\ ticks[o].pc = "gather"
    /\ a \in ticks[o].registered
    /\ ticks[o].tasks[a].pc = "send"
    /\ ticks' = [ticks EXCEPT ![o].tasks[a] = TaskAfterSend(@, ok)]
    /\ UNCHANGED <<agents, session, loops, direct, reg, cleanup, budget>>

\* Lines 863-887: what execute_game_step returns once every task has ended.
Report(tick, step) == [results |-> StepResults(tick), step |-> step, success |-> TRUE]

\* Line 877
StepCounted(sess) == [sess EXCEPT !.step_count = @ + 1]

AllTasksDone(tick) ==
    tick.pc = "gather" /\ \A a \in tick.registered : tick.tasks[a].pc = "done"

\* The manual execute_game_step ends.
ManualStepFinish ==
    /\ AllTasksDone(ticks[0])
    /\ session' = StepCounted(session)
    /\ ticks' = [ticks EXCEPT ![0] = IdleTick]
    /\ UNCHANGED <<agents, loops, direct, reg, cleanup, budget>>

\* Times a step may take (total_step_time, line 860), in thousandths of a second:
\* well below a two-second delay, within 5 ms of it, and above the default delay.
Durations == {996, 1996, 7004}

\* round(total_step_time, 2) (line 886): the nearest hundredth of a second, in
\* thousandths.  The times drawn never lie halfway between two hundredths.
StepDuration(total_step_time) == ((total_step_time + 5) \div 10) * 10

\* A loop that always sleeps the whole delay, whatever the step took.
RemainingTime_FullDelay(step_delay, step_duration) == Millis(step_delay)

\* remaining_time of line 1031, in thousandths of a second.
RemainingTime(step_delay, step_duration) == Millis(step_delay) - step_duration

\* Loop l's execute_game_step ends total_step_time after it began and reports
\* step_duration; the loop sleeps for the remaining time if there is any
\* (lines 1027-1034), or goes straight back to its head.
LoopStepFinish(l, total_step_time) ==
    /\ AllTasksDone(ticks[l])
    /\ session' = StepCounted(session)
    /\ IF RemainingTime(session.step_delay, StepDuration(total_step_time)) > 0
       THEN /\ loops' = [loops EXCEPT ![l] = [pc |-> "sleep",
                  sleep_for |-> RemainingTime(session.step_delay,
                                              StepDuration(total_step_time)),
                  step_duration |-> StepDuration(total_step_time)]]
            /\ ticks' = [ticks EXCEPT ![l] = IdleTick]
            /\ budget' = budget
       ELSE /\ budget >= StepsAfterHead(StepCounted(session))
            /\ loops' = [loops EXCEPT ![l] =
                  IF LoopHead(StepCounted(session)) = "exit" THEN NoLoop
                  ELSE [LoopAfterHead(StepCounted(session))
                           EXCEPT !.step_duration = StepDuration(total_step_time)]]
            /\ ticks' = [ticks EXCEPT ![l] = TickAfterHead(StepCounted(session))]
            /\ budget' = budget - StepsAfterHead(StepCounted(session))
    /\ UNCHANGED <<agents, direct, reg, cleanup>>

\* The triggers a direct step request may carry.
Triggers == {None, "attacked"}

\* POST /next-step-for-agents, up to the provider call (or to its end).
DirectStep(a, action_occurred) ==
    /\ direct.pc = "idle"
    /\ a \in DOMAIN agents
    /\ budget >= 1
    /\ LET begun == StepBegin(agents[a], action_occurred)
       IN  /\ agents' = [agents EXCEPT ![a] = begun.state]
           /\ direct' = IF begun.kind = "await"
                        THEN [block |-> begun.block, pc |-> "llm", agent |-> a]
                        ELSE direct
           /\ budget' = IF begun.kind = "await" THEN budget - 1 ELSE budget
    /\ UNCHANGED <<session, ticks, loops, reg, cleanup>>

\* The provider answers the direct step.
DirectAnswer(answer) ==
    /\ direct.pc = "llm"
    /\ agents' = [agents EXCEPT ![direct.agent] = StateAfterAnswer(@, direct.block, answer)]
    /\ direct' = IdleDirect
    /\ UNCHANGED <<session, ticks, loops, reg, cleanup, budget>>

Init ==
    /\ EngineInit
    /\ request = None /\ response = NoReply
    /\ dblock = None /\ doutput = None /\ dresult = NoResult
    /\ recorded = <<>> /\ last = None

\* Spec: add-agent, session start and cleanup, manually requested global ticks
\* and direct single-agent steps, over two agents.
Next ==
    \/ \E a \in AgentIds, r \in BOOLEAN :
            \E program \in SamplePrograms(a) : AddAgent(program, r) /\ UNCHANGED pure_vars
    \/ RegisterStart /\ UNCHANGED pure_vars
    \/ \E ok \in BOOLEAN : RegisterReturn(ok) /\ UNCHANGED pure_vars
    \/ CleanupStart /\ UNCHANGED pure_vars
    \/ \E ok \in BOOLEAN : CleanupReturn(ok) /\ UNCHANGED pure_vars
    \/ ManualStep /\ UNCHANGED pure_vars
    \/ \E o \in 0..MaxLoops : \E S \in SUBSET AgentIds : FetchReturn(o, S) /\ UNCHANGED pure_vars
    \/ \E o \in 0..MaxLoops : TasksStart(o) /\ UNCHANGED pure_vars
    \/ \E o \in 0..MaxLoops, a \in AgentIds :
            \E answer \in Answers : TaskAnswer(o, a, answer) /\ UNCHANGED pure_vars
    \/ \E o \in 0..MaxLoops, a \in AgentIds, ok \in BOOLEAN :
            TaskSendReturn(o, a, ok) /\ UNCHANGED pure_vars
    \/ ManualStepFinish /\ UNCHANGED pure_vars
    \/ \E a \in AgentIds, t \in Triggers : DirectStep(a, t) /\ UNCHANGED pure_vars
    \/ \E answer \in Answers : DirectAnswer(answer) /\ UNCHANGED pure_vars

Spec == Init /\ [][Next]_vars

\* SpecAuto: the auto-stepping loop with start, stop, cleanup and manually
\* requested ticks, over one agent.
AutoAgentIds == {"a1"}
AutoAnswers ==
    {Answer("output", JsonObject(FALSE, "move", Params(Num(5), Num(-10), Absent), "r")),
     Answer("timeout", JsonOther(FALSE))}
StepDelays == {0, 2}

NextAuto ==
    \/ \E a \in AutoAgentIds, r \in BOOLEAN : AddAgent(ProgramA(a), r) /\ UNCHANGED pure_vars
    \/ RegisterStart /\ UNCHANGED pure_vars
    \/ \E ok \in BOOLEAN : RegisterReturn(ok) /\ UNCHANGED pure_vars
    \/ CleanupStart /\ UNCHANGED pure_vars
    \/ \E ok \in BOOLEAN : CleanupReturn(ok) /\ UNCHANGED pure_vars
    \/ \E d \in StepDelays : StartAutoStepping(d) /\ UNCHANGED pure_vars
    \/ StopAutoStepping /\ UNCHANGED pure_vars
    \/ \E l \in LoopIds : LoopRun(l) /\ UNCHANGED pure_vars
    \/ ManualStep /\ UNCHANGED pure_vars
    \/ \E o \in 0..MaxLoops : \E S \in SUBSET AutoAgentIds : FetchReturn(o, S) /\ UNCHANGED pure_vars
    \/ \E o \in 0..MaxLoops : TasksStart(o) /\ UNCHANGED pure_vars
    \/ \E o \in 0..MaxLoops, a \in AutoAgentIds :
            \E answer \in AutoAnswers : TaskAnswer(o, a, answer) /\ UNCHANGED pure_vars
    \/ \E o \in 0..MaxLoops, a \in AutoAgentIds, ok \in BOOLEAN :
            TaskSendReturn(o, a, ok) /\ UNCHANGED pure_vars
    \/ ManualStepFinish /\ UNCHANGED pure_vars
    \/ \E l \in LoopIds, d \in Durations : LoopStepFinish(l, d) /\ UNCHANGED pure_vars

SpecAuto == Init /\ [][NextAuto]_vars

(***************************************************************************)
(* SpecValidate: one raw program, drawn from a bounded universe, is posted  *)
(* to /add-agent of an engine with no agents.                              *)
(***************************************************************************)

MaxBlocks == 2

RawIds == {"", "a", "b"}
RawNexts == {None, "", "a", "b"}
RawConnections == {<<>>} \cup {<<ToolConnection(t, "move")>> : t \in RawIds}

RawBlocks ==
    {ActionBlock(id, at, nx) : id \in RawIds, at \in {"onStart", "onAttacked"}, nx \in RawNexts}
    \cup {ToolBlock(id, "move", nx) : id \in RawIds, nx \in RawNexts}
    \cup {AgentBlock(id, tc) : id \in RawIds, tc \in RawConnections}

RawPrograms ==
    {ProgramSchema("a1", bs) : bs \in UNION {[1..n -> RawBlocks] : n \in 0..MaxBlocks}}

InitValidate ==
    /\ request \in RawPrograms
    /\ response = NoReply
    /\ dblock = None /\ doutput = None /\ dresult = NoResult
    /\ recorded = <<>> /\ last = None
    /\ EngineInit

PostAddAgent ==
    /\ response = NoReply
    /\ response' = AddAgentReply(agents, request)
    /\ agents' = AddAgentState(agents, request)
    /\ UNCHANGED <<request, dblock, doutput, dresult, recorded, last>>
    /\ UNCHANGED <<session, ticks, loops, direct, reg, cleanup, budget>>

NextValidate == PostAddAgent

SpecValidate == InitValidate /\ [][NextValidate]_vars

\* The defects of a raw program that validation must reject.
EmptyBlockSet(p) == Len(p.blocks) = 0
NoOnStart(p) == ~ \E i \in 1..Len(p.blocks) :
                    p.blocks[i].type = "action" /\ p.blocks[i].action_type = "onStart"
DuplicateIds(p) == \E i, j \in 1..Len(p.blocks) : i # j /\ p.blocks[i].id = p.blocks[j].id
BlockIds(p) == {p.blocks[i].id : i \in 1..Len(p.blocks)}
DanglingSuccessor(p) == \E i \in 1..Len(p.blocks) :
                            /\ p.blocks[i].type \in {"action", "tool"}
                            /\ Truthy(p.blocks[i].next)
                            /\ p.blocks[i].next \notin BlockIds(p)
DanglingBinding(p) == \E i \in 1..Len(p.blocks) :
                        \E k \in 1..Len(p.blocks[i].tool_connections) :
                            p.blocks[i].tool_connections[k].tool_id \notin BlockIds(p)
NoBindings(p) == \E i \in 1..Len(p.blocks) :
                    p.blocks[i].type = "agent" /\ Len(p.blocks[i].tool_connections) = 0
Defective(p) == \/ EmptyBlockSet(p) \/ NoOnStart(p) \/ DuplicateIds(p)
                \/ DanglingSuccessor(p) \/ DanglingBinding(p) \/ NoBindings(p)

\* C1: a raw program with an empty block set, no onStart entry, a duplicate id, a
\* dangling successor or tool-binding reference, or a decision block with no tool
\* bindings is rejected with a validation error and no agent state is created for it.
C1_ValidationRejects ==
    (response # NoReply /\ Defective(request)) =>
        (response.status = 422 /\ agents = <<>>)

\* Witness of C1: a program whose only defect is a dangling successor was
\* posted and answered.
C1_Witness ==
    /\ response # NoReply
    /\ DanglingSuccessor(request)
    /\ ~EmptyBlockSet(request) /\ ~NoOnStart(request) /\ ~DuplicateIds(request)
    /\ ~DanglingBinding(request) /\ ~NoBindings(request)

(***************************************************************************)
(* SpecDecide: one agent block and one provider output, drawn from bounded  *)
(* sets, go through the decision step.                                     *)
(***************************************************************************)

MaxBindings == 2

ToolNames == {"move", "attack", "plan", "search"}
DecisionBlocks ==
    {AgentBlock("D", [i \in 1..Len(names) |-> ToolConnection("T" \o names[i], names[i])]) :
        names \in UNION {[1..n -> ToolNames] : n \in 1..MaxBindings}}

XValues == {Absent, Num(5), Num(25), Num(999), Str}
YValues == {Absent, Num(-10), Num(-26), Num(-999)}
OutputParams == {Params(x, y, p) : x \in XValues, y \in YValues, p \in {Absent, Str}}
OutputActions == {"move", "MOVE", "attack", "plan", "fly", "", NonStr}
OutputTexts == {"move", " move\n", " Attack ", "I will Move", ""}
FinalOutputs ==
    UNION {{JsonObject(f, a, ps, r) : a \in OutputActions, ps \in OutputParams, r \in {None, "r"}}
           \cup {JsonOther(f)}
           \cup {NotJson(f, t) : t \in OutputTexts} : f \in BOOLEAN}

InitDecide ==
    /\ dblock \in DecisionBlocks
    /\ doutput \in FinalOutputs
    /\ dresult = NoResult
    /\ request = None /\ response = NoReply
    /\ recorded = <<>> /\ last = NoRun
    /\ EngineInit

\* execute_agent_block up to its call of the provider (lines 445-559).
DecideCall ==
    /\ last = NoRun
    /\ last' = ProviderRun(dblock)
    /\ UNCHANGED <<request, response, dblock, doutput, dresult, recorded>>
    /\ UNCHANGED engine_vars

\* execute_agent_block from the provider's answer on (lines 561-616).
Decide ==
    /\ last # NoRun
    /\ dresult = NoResult
    /\ dresult' = DecisionResult(dblock, doutput)
    /\ UNCHANGED <<request, response, dblock, doutput, recorded, last>>
    /\ UNCHANGED engine_vars

NextDecide == DecideCall \/ Decide

SpecDecide == InitDecide /\ [][NextDecide]_vars

\* The decision step has returned or raised.
Decided == dresult # NoResult

\* The decision step selected the first offered binding with empty parameters.
SelectedFirstOffered ==
    /\ dresult.status = "ok"
    /\ dresult.tool_choice = AvailableTools(dblock)[1]
    /\ dresult.parameters = EmptyParams

\* The output is a JSON object whose action is a string, i.e. it parses to a tool kind.
ParsesToToolKind == doutput.json = "object" /\ doutput.action # NonStr

\* C9: whenever the provider's output parses to a tool kind that is not among the
\* offered tool bindings, the step selects the first offered binding with empty
\* parameters.
C9_UnofferedToolSelectsFirst ==
    (Decided /\ ParsesToToolKind /\ Lower(doutput.action) \notin Range(AvailableTools(dblock)))
        => SelectedFirstOffered

\* C10: whenever the provider's output cannot be parsed as a structured object (it is
\* not JSON, or it is JSON but not an object), the step selects the first offered
\* binding with empty parameters and does not fail.
C10_UnparseableSelectsFirst ==
    (Decided /\ doutput.json \in {"invalid", "other"}) => SelectedFirstOffered

(***************************************************************************)
(* Properties of the engine: Spec and SpecAuto.                            *)
(***************************************************************************)

TickIds == 0..MaxLoops

\* The ids of the blocks of an agent's program.
ProgramBlockIds(state) == {state.program.blocks[i].id : i \in 1..Len(state.program.blocks)}

\* The game steps in which agent a's step has called the provider and not yet
\* got its answer, and whether the direct step is in that position for a.
TickStepsInFlight(a) ==
    {o \in TickIds : /\ ticks[o].pc = "gather"
                     /\ a \in ticks[o].registered
                     /\ ticks[o].tasks[a].pc = "llm"}
DirectStepInFlight(a) == direct.pc = "llm" /\ direct.agent = a
StepsInFlight(a) ==
    Cardinality(TickStepsInFlight(a)) + (IF DirectStepInFlight(a) THEN 1 ELSE 0)

\* The tasks of game step o, once gather has started them.
Gathering(o) == ticks[o].pc = "gather"
TaskOf(o, a) == ticks[o].tasks[a]

\* C2: the cursor of every agent is absent (None or empty, which the code treats
\* alike) or the id of a block of the agent's program, and no step that begins
\* from the state, with or without a trigger, ends in the 500 "current node not
\* found" error.
C2_CursorInProgram ==
    \A a \in DOMAIN agents :
        /\ Truthy(agents[a].current_node) =>
                agents[a].current_node \in ProgramBlockIds(agents[a])
        /\ \A t \in Triggers : StepBegin(agents[a], t).status # 500

\* Witness of C2: an agent took two steps, the second from the fallback to its
\* last agent block, and its cursor is absent again.
C2_Witness ==
    \E a \in DOMAIN agents :
        /\ Len(agents[a].past_actions) = 2
        /\ agents[a].past_actions[1].action = "attack"
        /\ agents[a].current_node = None
        /\ agents[a].last_agent_block = "D"

\* C3: no agent has two steps in flight at once, whether the steps come from
\* game steps or from direct step requests.
C3_OneStepInFlight == \A a \in AgentIds : StepsInFlight(a) <= 1

\* C4: at most one auto-step loop task is alive at any time.
C4_OneLoopAlive == Cardinality({l \in LoopIds : loops[l].pc # "none"}) <= 1

\* C5: a step in flight for an agent started from the cursor the agent has now:
\* no other step of the agent has written its cursor since this one read it.
C5_StepsStartFromPrecedingCursor ==
    \A a \in DOMAIN agents :
        /\ \A o \in TickStepsInFlight(a) : agents[a].current_node = TaskOf(o, a).block
        /\ DirectStepInFlight(a) => agents[a].current_node = direct.block

\* The state part of C6: in a game step no exception escapes a task, an agent
\* is refused for a missing game state exactly when its own state is missing, and
\* a task that ended well reports its own decision and has sent it.
OwnOutcomeOnly ==
    \A o \in TickIds : Gathering(o) =>
        \A b \in ticks[o].registered :
            /\ ~TaskOf(o, b).result.raised
            /\ (TaskOf(o, b).outcome = "nostate") = (b \notin ticks[o].game_states)
            /\ TaskOf(o, b).outcome = "ok" =>
                    /\ TaskOf(o, b).sent
                    /\ TaskOf(o, b).result.entry =
                            ActionEntry(TaskOf(o, b).decision.tool_choice,
                                        TaskOf(o, b).decision.parameters,
                                        TaskOf(o, b).next_node)

\* The action part of C6: the step in which an agent's task ends with an error
\* entry changes no other task of the game step and no other agent's state.
SiblingsUntouched ==
    \A o \in TickIds, a \in AgentIds :
        (/\ Gathering(o) /\ ticks'[o].pc = "gather"
         /\ a \in ticks[o].registered
         /\ TaskOf(o, a).pc # "done"
         /\ ticks'[o].tasks[a].pc = "done"
         /\ ticks'[o].tasks[a].result.entry.kind = "error")
        => \A b \in ticks[o].registered \ {a} :
                /\ ticks'[o].tasks[b] = ticks[o].tasks[b]
                /\ b \in DOMAIN agents => agents'[b] = agents[b]

\* C6: a timeout or error of one agent's step is captured as that agent's entry
\* only; the other participants' tasks run on unchanged and report their own results.
C6_FailureIsolated == []OwnOutcomeOnly /\ [][SiblingsUntouched]_vars

\* Witness of C6: a game step ended in which a1's provider call failed and a2's
\* action was decided and sent.
C6_Witness ==
    \E o \in TickIds :
        /\ AllTasksDone(ticks[o])
        /\ ticks[o].registered = {"a1", "a2"}
        /\ TaskOf(o, "a1").outcome = "llm_error"
        /\ TaskOf(o, "a2").outcome = "ok"

\* C7: the results of a game step whose tasks have all ended hold one entry, a
\* result or an error, for exactly the agents registered when the step started.
C7_OneEntryPerParticipant ==
    \A o \in TickIds : AllTasksDone(ticks[o]) =>
        /\ DOMAIN StepResults(ticks[o]) = ticks[o].registered
        /\ \A a \in ticks[o].registered :
                StepResults(ticks[o])[a].kind \in {"action", "noaction", "error"}

\* Witness of C7: a game step over two agents ended, one without a game state
\* and one whose send_command failed, after cleanup emptied the registered agents.
C7_Witness ==
    \E o \in TickIds :
        /\ AllTasksDone(ticks[o])
        /\ session.registered_agents = {}
        /\ \E a, b \in ticks[o].registered :
                /\ TaskOf(o, a).outcome = "nostate"
                /\ TaskOf(o, b).outcome = "send_failed"

\* The state part of C8: a task whose provider call timed out ends with an entry
\* that carries no action, the error "timeout" and the skipped flag, has sent
\* nothing, and the entry is in the results of the game step.
TimeoutSkipped ==
    \A o \in TickIds : Gathering(o) =>
        \A a \in ticks[o].registered : TaskOf(o, a).outcome = "timeout" =>
            /\ TaskOf(o, a).result.entry.action = None
            /\ TaskOf(o, a).result.entry.error = "timeout"
            /\ TaskOf(o, a).result.entry.skipped
            /\ ~TaskOf(o, a).sent
            /\ AllTasksDone(ticks[o]) => a \in DOMAIN StepResults(ticks[o])

\* The action part of C8: a game step with a timed-out task that ends raises
\* step_count by one.
TimeoutTickCounted ==
    \A o \in TickIds :
        (/\ AllTasksDone(ticks[o])
         /\ \E a \in ticks[o].registered : TaskOf(o, a).outcome = "timeout"
         /\ ticks'[o] # ticks[o])
        => session'.step_count = session.step_count + 1

\* C8: a provider timeout gives the agent a no-action entry with the skipped
\* flag, sends nothing for it, and the game step still ends and is counted.
C8_TimeoutSkipsAgent == []TimeoutSkipped /\ [][TimeoutTickCounted]_vars

\* Witness of C8: every task of a game step has ended, one of them by a provider
\* timeout, and the step is about to be counted.
C8_Witness ==
    \E o \in TickIds :
        /\ AllTasksDone(ticks[o])
        /\ \E a \in ticks[o].registered :
                TaskOf(o, a).outcome = "timeout" /\ ~TaskOf(o, a).sent

(***************************************************************************)
(* Properties of the decision step: the clamp of a move.                   *)
(***************************************************************************)

Min(a, b) == IF a <= b THEN a ELSE b
Max(a, b) == IF a >= b THEN a ELSE b

\* min(25, max(-25, v)) of a parameter that is a number; an absent one stays absent.
Clamped25(v) == IF v.kind = "num" THEN Num(Min(25, Max(-25, v.n))) ELSE v

\* The output selects move, which the block offers, with x and y each a number
\* or absent and at least one of them a number.
SelectsMoveWithNumbers ==
    /\ doutput.json = "object" /\ doutput.action # NonStr
    /\ Lower(doutput.action) = "move"
    /\ "move" \in Range(AvailableTools(dblock))
    /\ doutput.parameters.x.kind \in {"num", "absent"}
    /\ doutput.parameters.y.kind \in {"num", "absent"}
    /\ "num" \in {doutput.parameters.x.kind, doutput.parameters.y.kind}

\* C11: for every provider output that selects (an offered) move with numeric x
\* and/or y, the decision step returns move with each of x and y equal to
\* min(25, max(-25, v)) of the value v the provider gave, and nothing else changed.
C11_MoveClamped ==
    (Decided /\ SelectsMoveWithNumbers) =>
        /\ dresult.status = "ok"
        /\ dresult.tool_choice = "move"
        /\ dresult.parameters.x = Clamped25(doutput.parameters.x)
        /\ dresult.parameters.y = Clamped25(doutput.parameters.y)
        /\ dresult.parameters.plan = doutput.parameters.plan

\* Witness of C11: {x: 999, y: -999} came back as {x: 25, y: -25}.
C11_Witness ==
    /\ Decided
    /\ SelectsMoveWithNumbers
    /\ doutput.parameters.x = Num(999) /\ doutput.parameters.y = Num(-999)
    /\ dresult.parameters.x = Num(25) /\ dresult.parameters.y = Num(-25)

(***************************************************************************)
(* SpecStep: one agent is added and stepped through POST /add-agent and    *)
(* POST /next-step-for-agents, one request at a time. `last` keeps the last *)
(* request with the state before it and its reply, `recorded` every action *)
(* record a step appended.                                                 *)
(***************************************************************************)

MaxActions == 7

\* A program with no onAttacked entry whose tool blocks lead to a tool block
\* and to an entry block.
ProgramC(agent_id) ==
    ProgramSchema(agent_id,
        <<ActionBlock("e1", "onStart", "D"),
          AgentBlock("D", <<ToolConnection("T1", "move"), ToolConnection("T2", "plan")>>),
          ToolBlock("T1", "move", "T2"),
          ToolBlock("T2", "plan", "e1")>>)
\* A program with two onAttacked entries, the first one not wired.
ProgramTwoEntries(agent_id) ==
    ProgramSchema(agent_id,
        <<ActionBlock("e1", "onStart", "D"),
          ActionBlock("e2", "onAttacked", None),
          ActionBlock("e3", "onAttacked", "D2"),
          AgentBlock("D", <<ToolConnection("T1", "move")>>),
          AgentBlock("D2", <<ToolConnection("T2", "attack")>>),
          ToolBlock("T1", "move", "D"),
          ToolBlock("T2", "attack", None)>>)
\* A program whose onAttacked entry leads to a tool block.
ProgramToolEntry(agent_id) ==
    ProgramSchema(agent_id,
        <<ActionBlock("e1", "onStart", "D"),
          ActionBlock("e2", "onAttacked", "T1"),
          AgentBlock("D", <<ToolConnection("T1", "move")>>),
          ToolBlock("T1", "move", "D")>>)
StepPrograms(agent_id) ==
    SamplePrograms(agent_id)
    \cup {ProgramC(agent_id), ProgramTwoEntries(agent_id), ProgramToolEntry(agent_id)}
StepAgentIds == {"a1"}
StepAnswers ==
    Answers \cup {Answer("output", JsonObject(FALSE, "plan", Params(Absent, Absent, Str), "r"))}

\* The reply of a request: the HTTP status and, for a step, the ToolAction and
\* the current_node of the NextStepResponse.
StepReply(status, action, parameters, current_node) ==
    [current_node |-> current_node, status |-> status, parameters |-> parameters,
     action |-> action]
NoStepReply == StepReply(0, None, EmptyParams, None)
\* Lines 1090-1094
NoActionReply == StepReply(200, None, EmptyParams, None)
\* An HTTPException's status; an exception that is not one is answered 500.
ErrorReply(e) == StepReply(IF e.http THEN e.status ELSE 500, None, EmptyParams, None)
\* Lines 1177-1187
ActionReply(decision, current_node) ==
    StepReply(200, decision.tool_choice, decision.parameters, current_node)

\* What next_step_for_agents answers when it ends before the provider call.
ReplyAfterBegin(begun) ==
    IF begun.kind = "noaction" THEN NoActionReply
    ELSE IF begun.kind = "raise" THEN ErrorReply(HTTPException(begun.status, "step failed"))
    ELSE NoStepReply

\* What next_step_for_agents answers after the provider's answer.
ReplyAfterAnswer(state, block, answer) ==
    LET finished == StepFinish(state, block, answer.out)
    IN  IF answer.kind # "output" THEN ErrorReply(AnswerException(answer))
        ELSE IF finished.kind = "raise" THEN ErrorReply(FinishException(finished))
        ELSE ActionReply(finished.decision, finished.state.current_node)

\* A handled request: op is "add" or "step"; before is the agents dictionary and
\* the session when the request arrived.
NoProgram == ProgramSchema(None, <<>>)
NoAnswer == Answer("none", JsonOther(FALSE))
Call(op, agent, program, trigger, register_in_game, before, before_session, pc, block, answer, reply) ==
    [block |-> block, program |-> program, op |-> op, pc |-> pc,
     answer |-> answer, agent |-> agent, register_in_game |-> register_in_game,
     trigger |-> trigger,
     before |-> before, before_session |-> before_session, reply |-> reply]
NoCall == Call("none", None, NoProgram, None, FALSE, <<>>, GameSession, "done", None,
               NoAnswer, NoStepReply)

InitStep ==
    /\ agents = <<>>
    /\ session = GameSession
    /\ ticks = [o \in 0..MaxLoops |-> IdleTick]
    /\ loops = [l \in LoopIds |-> NoLoop]
    /\ direct = IdleDirect
    /\ reg = IdleReg
    /\ cleanup = IdleCleanup
    /\ budget = MaxActions
    /\ recorded = <<>> /\ last = NoCall
    /\ request = None /\ response = NoReply
    /\ dblock = None /\ doutput = None /\ dresult = NoResult

\* POST /add-agent, accepted or rejected.
StepAdd(program, register_in_game) ==
    /\ direct.pc = "idle"
    /\ IF AddAgentReply(agents, program).status = 200
       THEN AddAgent(program, register_in_game)
       ELSE UNCHANGED engine_vars
    /\ last' = Call("add", program.agent_id, program, None, register_in_game, agents,
                    session, "done", None, NoAnswer,
                    StepReply(AddAgentReply(agents, program).status, None, EmptyParams, None))
    /\ UNCHANGED <<request, response, dblock, doutput, dresult, recorded>>

\* POST /next-step-for-agents, up to the provider call or to its end.
StepCall(a, action_occurred) ==
    /\ DirectStep(a, action_occurred)
    /\ LET begun == StepBegin(agents[a], action_occurred)
       IN  last' = Call("step", a, NoProgram, action_occurred, FALSE, agents, session,
                        IF begun.kind = "await" THEN "await" ELSE "done",
                        begun.block, NoAnswer, ReplyAfterBegin(begun))
    /\ UNCHANGED <<request, response, dblock, doutput, dresult, recorded>>

\* The provider answers and next_step_for_agents runs to its end.
StepAnswer(answer) ==
    /\ DirectAnswer(answer)
    /\ LET finished == StepFinish(agents[direct.agent], direct.block, answer.out)
       IN  /\ last' = [last EXCEPT !.pc = "done", !.answer = answer,
                            !.reply = ReplyAfterAnswer(agents[direct.agent], direct.block, answer)]
           /\ recorded' = IF answer.kind = "output" /\ finished.kind = "action"
                          THEN Append(recorded, ActionRecord(finished.decision))
                          ELSE recorded
    /\ UNCHANGED <<request, response, dblock, doutput, dresult>>

NextStep ==
    \/ \E a \in StepAgentIds, r \in BOOLEAN : \E program \in StepPrograms(a) : StepAdd(program, r)
    \/ \E a \in StepAgentIds, t \in Triggers : StepCall(a, t)
    \/ \E answer \in StepAnswers : StepAnswer(answer)

SpecStep == InitStep /\ [][NextStep]_vars

(***************************************************************************)
(* Properties of the step executor, checked under SpecStep.                *)
(***************************************************************************)

\* The last n elements of a sequence.
LastRecords(seq, n) == SubSeq(seq, Len(seq) - n + 1, Len(seq))

\* C12: an agent's past_actions never holds more than 5 records, and after n
\* recorded actions it is exactly the last min(n, 5) of them in the order they
\* were recorded.
C12_HistoryKeepsLastFive ==
    \A a \in DOMAIN agents :
        /\ Len(agents[a].past_actions) <= 5
        /\ agents[a].past_actions = LastRecords(recorded, Min(Len(recorded), 5))

\* Witness of C12: seven actions were recorded, not all alike, and the history
\* holds five, the third recorded one first.
C12_Witness ==
    /\ Len(recorded) = 7
    /\ recorded[2].action = "attack" /\ recorded[3].action = "move"
    /\ \E a \in DOMAIN agents :
            /\ Len(agents[a].past_actions) = 5
            /\ agents[a].past_actions[1] = recorded[3]

\* The last request was POST /add-agent with a valid program for an agent id
\* that was in the agents dictionary already.
DuplicateAdd ==
    /\ last.op = "add"
    /\ last.agent \in DOMAIN last.before
    /\ ValidateProgram(last.program) = "ok"

\* C13: adding an agent id that exists already is answered with the 400
\* "already exists" error and leaves the agents dictionary (program, cursor,
\* history, plan, last blocks) and the session as they were.
C13_DuplicateAddRejected ==
    DuplicateAdd =>
        /\ last.reply.status = 400
        /\ agents = last.before
        /\ session = last.before_session

\* Witness of C13: an agent that has stepped was added again with another program.
C13_Witness ==
    /\ DuplicateAdd
    /\ last.before[last.agent].program # last.program
    /\ Len(last.before[last.agent].past_actions) >= 1
    /\ Truthy(last.before[last.agent].current_node)

\* The last request was a step that has ended, and whether it returned an action.
StepEnded == last.op = "step" /\ last.pc = "done"
SuccessfulStep == StepEnded /\ last.reply.status = 200 /\ last.reply.action # None

\* The agent block the last step resolved, the tool names it offers, and the
\* target block of its first binding for a tool name.
LastAgentBlock == BlockById(agents[last.agent].program.blocks, last.block)
OfferedTools(block) ==
    {block.tool_connections[i].tool_name : i \in 1..Len(block.tool_connections)}
BindingTarget(blocks, block, tool_name) ==
    LET idx == {i \in 1..Len(block.tool_connections) :
                    block.tool_connections[i].tool_name = tool_name}
    IN  BlockById(blocks, block.tool_connections[CHOOSE i \in idx : \A j \in idx : i <= j].tool_id)

\* The tool kind and the parameters the provider's answer decides for a block:
\* the tool it names when the block offers it, with a move's x and y in
\* [-25, 25], else the first binding with no parameters.
DecidedKind(block, out) ==
    IF out.action \in OfferedTools(block) THEN out.action
    ELSE block.tool_connections[1].tool_name
DecidedParameters(block, out) ==
    IF out.action \notin OfferedTools(block) THEN EmptyParams
    ELSE IF out.action = "move"
    THEN [out.parameters EXCEPT !.x = Clamped25(@), !.y = Clamped25(@)]
    ELSE out.parameters

\* C14: after a successful step the returned action carries the decided tool
\* kind and parameters, and the agent's cursor, also returned as current_node, is
\* the next of the tool block the binding of that kind points to.
C14_CursorAfterTool ==
    SuccessfulStep =>
        /\ last.reply.action = DecidedKind(LastAgentBlock, last.answer.out)
        /\ last.reply.parameters = DecidedParameters(LastAgentBlock, last.answer.out)
        /\ agents[last.agent].current_node =
                BindingTarget(agents[last.agent].program.blocks, LastAgentBlock,
                              last.reply.action).next
        /\ last.reply.current_node = agents[last.agent].current_node

\* Witness of C14: with T1.next = D the provider answered move(5, -10); the
\* action is move(5, -10) and the cursor is D.
C14_Witness ==
    /\ SuccessfulStep
    /\ agents[last.agent].program = ProgramA(last.agent)
    /\ last.answer.out = JsonObject(FALSE, "move", Params(Num(5), Num(-10), Absent), "r")
    /\ last.reply = StepReply(200, "move", Params(Num(5), Num(-10), Absent), "D")
    /\ agents[last.agent].current_node = "D"

\* The last request was a step that carried a trigger.
TriggeredStep == last.op = "step" /\ last.trigger # None

\* The successors of the program's entry blocks of the trigger's kind.
EntrySuccessors(program, trigger) ==
    {program.blocks[i].next : i \in {j \in 1..Len(program.blocks) :
        /\ program.blocks[j].type = "action"
        /\ program.blocks[j].action_type = TriggerActionType(trigger)
        /\ Truthy(program.blocks[j].next)}}

\* The node the last step resolved: the agent block it ran, or, when it ended
\* before the provider call, the cursor it left.
StartedFrom ==
    IF last.block # None THEN last.block ELSE agents[last.agent].current_node

\* C15: a step given a trigger, for a program that has an entry block of the
\* trigger's kind with a successor, executes from that successor whatever the
\* cursor was before.
C15_TriggerPreempts ==
    (TriggeredStep /\ EntrySuccessors(agents[last.agent].program, last.trigger) # {})
        => StartedFrom \in EntrySuccessors(agents[last.agent].program, last.trigger)

\* The agent's state before the last step, and the node a step without a
\* trigger would run from it: the cursor, or the last agent block when the
\* cursor is absent.
StateBefore == last.before[last.agent]
NodeWithoutTrigger ==
    IF Truthy(StateBefore.current_node) THEN StateBefore.current_node
    ELSE StateBefore.last_agent_block

\* The provider answered the last step with a JSON object.
AnsweredWithObject ==
    StepEnded /\ last.answer.kind = "output" /\ last.answer.out.json = "object"

IdleStep ==
    /\ last.op = "step"
    /\ ~Truthy(NodeAfterTrigger(StateBefore, last.trigger))

\* The agent had run an agent block before the last step.
HadAgentBlock == Truthy(StateBefore.last_agent_block)

\* C17: a step whose cursor is absent after trigger handling runs the agent's
\* last agent block when it has one, and otherwise returns no action and leaves
\* the agent's state as it was; so an agent with no cursor that has run an agent
\* block returns an action whenever the provider answers and does not time out.
C17_IdleFallsBack ==
    IdleStep =>
        /\ HadAgentBlock => StartedFrom = StateBefore.last_agent_block
        /\ ~HadAgentBlock => (last.reply = NoActionReply /\ agents = last.before)
        /\ (HadAgentBlock /\ StepEnded /\ last.answer.kind = "output")
                => (last.reply.status = 200 /\ last.reply.action # None)


\* The node the last step resolved from the state before it, and its block.
ResolvedNode == NodeAfterFallback(StateBefore, NodeAfterTrigger(StateBefore, last.trigger))
ResolvedBlock == BlockById(StateBefore.program.blocks, ResolvedNode)

\* The last request was a step that resolved an entry block or a tool block.
NonAgentStep ==
    /\ last.op = "step"
    /\ Truthy(ResolvedNode)
    /\ ResolvedBlock.type \in {"action", "tool"}

\* C18: a step that resolves an entry block or a tool block is answered with an
\* error and no action without calling the provider; the history, the plan and
\* the last blocks stay as they were and the cursor stays at the resolved block.
C18_NonAgentBlockFails ==
    NonAgentStep =>
        /\ StepEnded /\ direct = IdleDirect /\ last.answer = NoAnswer
        /\ last.reply = StepReply(400, None, EmptyParams, None)
        /\ agents = [last.before EXCEPT ![last.agent].current_node = ResolvedNode]
        /\ agents[last.agent].past_actions = StateBefore.past_actions

\* Witness of C18: an agent with one recorded action and cursor D got a trigger
\* whose entry leads to the tool block T1, and the step failed.
C18_Witness ==
    /\ NonAgentStep
    /\ ResolvedBlock.type = "tool"
    /\ last.trigger = "attacked"
    /\ StateBefore.current_node = "D"
    /\ Len(StateBefore.past_actions) >= 1
    /\ last.reply.status = 400

\* A step failed at the entry block a plan tool block led to.
StepAtEntryBlock ==
    /\ NonAgentStep
    /\ ResolvedBlock.type = "action"
    /\ StateBefore.current_node = "e1"
    /\ last.reply.status = 400


(***************************************************************************)
(* SpecSession: the session's life over two agents: add-agent, start       *)
(* (register-agents-in-game), cleanup, auto-stepping and global ticks.     *)
(* `last` keeps the last arrival or return of a start or cleanup request,  *)
(* with the session as it was then and the status answered.                *)
(***************************************************************************)

SessionAgentIds == {"a1"}
SessionAnswers == AutoAnswers

\* An arrival or a return of a session request: pc is "rejected", "await" (the
\* handler is suspended) or "done".
SessionCall(op, sess, pc, status) ==
    Call(op, None, NoProgram, None, FALSE, <<>>, sess, pc, None, NoAnswer,
         StepReply(status, None, EmptyParams, None))

MaxSessionSteps == 2

InitSession ==
    /\ agents = <<>>
    /\ session = GameSession
    /\ ticks = [o \in 0..MaxLoops |-> IdleTick]
    /\ loops = [l \in LoopIds |-> NoLoop]
    /\ direct = IdleDirect
    /\ reg = IdleReg
    /\ cleanup = IdleCleanup
    /\ budget = MaxSessionSteps
    /\ recorded = <<>> /\ last = NoCall
    /\ request = None /\ response = NoReply
    /\ dblock = None /\ doutput = None /\ dresult = NoResult

\* POST /register-agents-in-game arrives: rejected, or run to its first await
\* or to its end.
SessionStart ==
    /\ reg.pc = "idle"
    /\ IF RegisterReply(session, agents) = 200
       THEN /\ RegisterStart
            /\ last' = SessionCall("start", session,
                                   IF reg'.pc = "await" THEN "await" ELSE "done", 200)
       ELSE /\ UNCHANGED engine_vars
            /\ last' = SessionCall("start", session, "rejected",
                                   RegisterReply(session, agents))
    /\ UNCHANGED <<request, response, dblock, doutput, dresult, recorded>>

\* register_agent returns or raises; the handler may end, with 200 or, after
\* the RuntimeError of the iteration, with 500.
SessionStartReturn(ok) ==
    /\ RegisterReturn(ok)
    /\ last' = IF reg'.pc = "idle"
               THEN SessionCall("start", session, "done",
                                IF session'.active THEN 200 ELSE 500)
               ELSE last
    /\ UNCHANGED <<request, response, dblock, doutput, dresult, recorded>>

\* POST /cleanup-game-session arrives: rejected, or run to its first await or
\* to its end.
SessionCleanup ==
    /\ cleanup.pc = "idle"
    /\ IF CleanupReply(session) = 200
       THEN /\ CleanupStart
            /\ last' = SessionCall("cleanup", session,
                                   IF cleanup'.pc = "await" THEN "await" ELSE "done", 200)
       ELSE /\ UNCHANGED engine_vars
            /\ last' = SessionCall("cleanup", session, "rejected", CleanupReply(session))
    /\ UNCHANGED <<request, response, dblock, doutput, dresult, recorded>>

\* remove_agent returns or raises; after the last one the handler ends.
SessionCleanupReturn(ok) ==
    /\ CleanupReturn(ok)
    /\ last' = IF cleanup'.pc = "idle"
               THEN SessionCall("cleanup", session, "done", 200)
               ELSE last
    /\ UNCHANGED <<request, response, dblock, doutput, dresult, recorded>>

\* POST /start-auto-stepping arrives: rejected, or the flag and the delay are
\* set and the loop task is created.
SessionStartAuto(step_delay) ==
    /\ IF StartAutoReply(session) = 200
       THEN /\ StartAutoStepping(step_delay)
            /\ last' = SessionCall("auto", session, "done", 200)
       ELSE /\ UNCHANGED engine_vars
            /\ last' = SessionCall("auto", session, "rejected", StartAutoReply(session))
    /\ UNCHANGED <<request, response, dblock, doutput, dresult, recorded>>

NextSession ==
    \/ \E a \in SessionAgentIds, r \in BOOLEAN : AddAgent(ProgramA(a), r) /\ UNCHANGED pure_vars
    \/ SessionStart
    \/ \E ok \in BOOLEAN : SessionStartReturn(ok)
    \/ SessionCleanup
    \/ \E ok \in BOOLEAN : SessionCleanupReturn(ok)
    \/ \E d \in StepDelays : SessionStartAuto(d)
    \/ StopAutoStepping /\ UNCHANGED pure_vars
    \/ \E l \in LoopIds : LoopRun(l) /\ UNCHANGED pure_vars
    \/ ManualStep /\ UNCHANGED pure_vars
    \/ \E o \in 0..MaxLoops : \E S \in SUBSET SessionAgentIds : FetchReturn(o, S) /\ UNCHANGED pure_vars
    \/ \E o \in 0..MaxLoops : TasksStart(o) /\ UNCHANGED pure_vars
    \/ \E o \in 0..MaxLoops, a \in SessionAgentIds :
            \E answer \in SessionAnswers : TaskAnswer(o, a, answer) /\ UNCHANGED pure_vars
    \/ \E o \in 0..MaxLoops, a \in SessionAgentIds, ok \in BOOLEAN :
            TaskSendReturn(o, a, ok) /\ UNCHANGED pure_vars
    \/ ManualStepFinish /\ UNCHANGED pure_vars
    \/ \E l \in LoopIds, d \in Durations : LoopStepFinish(l, d) /\ UNCHANGED pure_vars

SpecSession == InitSession /\ [][NextSession]_vars


(***************************************************************************)
(* Properties of the session, checked under SpecSession.                   *)
(***************************************************************************)

\* In this step a start request arrives, or a start request ends with 200.
StartArrives == last' # last /\ last'.op = "start" /\ reg.pc = "idle"
StartSucceeds ==
    last' # last /\ last'.op = "start" /\ last'.pc = "done" /\ last'.reply.status = 200

\* C19: the session becomes active only in a step in which a start request ends
\* successfully, and then the agents dictionary is not empty; a start request
\* that arrives while there are no agents or while the session is active is
\* answered 400 and leaves the session as it was.
C19_ActiveOnlyByStart ==
    [][/\ (~session.active /\ session'.active) => (StartSucceeds /\ DOMAIN agents # {})
       /\ (StartArrives /\ (DOMAIN agents = {} \/ session.active))
            => /\ last'.pc = "rejected" /\ last'.reply.status = 400
               /\ session' = session /\ reg' = reg]_vars

\* Witness of C19: a start request was rejected by an active session that has
\* counted a tick and is auto-stepping, and the session is as it was.
C19_Witness ==
    /\ last.op = "start" /\ last.pc = "rejected" /\ last.reply.status = 400
    /\ last.before_session.active
    /\ last.before_session.step_count >= 1
    /\ last.before_session.auto_stepping
    /\ session = last.before_session

\* A start request was rejected for having no agents; a session was started.
StartWithoutAgents ==
    /\ last.op = "start" /\ last.pc = "rejected"
    /\ agents = <<>> /\ ~session.active
SessionWasStarted ==
    /\ last.op = "start" /\ last.pc = "done" /\ last.reply.status = 200
    /\ ~last.before_session.active /\ session.active


\* In this step a cleanup request arrives, or a cleanup request ends with 200.
CleanupArrives == last' # last /\ last'.op = "cleanup" /\ cleanup.pc = "idle"
CleanupSucceeds ==
    last' # last /\ last'.op = "cleanup" /\ last'.pc = "done" /\ last'.reply.status = 200

\* The agents whose removal from the world has been attempted when the cleanup
\* request ends in this step.
RemovalsAttempted ==
    IF cleanup.pc = "idle" THEN {}
    ELSE DOMAIN cleanup.removal_results \cup {Head(cleanup.todo)}

\* C20: when a cleanup request ends successfully the session is inactive, not
\* auto-stepping, with no registered agents and step count 0, and the removal of
\* every agent that was registered has been attempted, whether or not the
\* removals before it failed; a cleanup request that arrives at an inactive
\* session is answered 400.
C20_CleanupClearsSession ==
    [][/\ CleanupSucceeds =>
            /\ ~session'.active
            /\ ~session'.auto_stepping
            /\ session'.registered_agents = {}
            /\ session'.step_count = 0
            /\ RemovalsAttempted = session.registered_agents
       /\ (CleanupArrives /\ ~session.active)
            => /\ last'.pc = "rejected" /\ last'.reply.status = 400
               /\ session' = session /\ cleanup' = cleanup]_vars


\* In this step a start-auto-stepping request arrives.
AutoArrives == last' # last /\ last'.op = "auto"

\* C21: a start-auto-stepping request that arrives while the session is
\* auto-stepping, or not active, is answered 400, leaves the session (the flag
\* and step_delay with it) as it was and creates no loop task.
C21_SecondAutoStartRejected ==
    [][(AutoArrives /\ (session.auto_stepping \/ ~session.active))
            => /\ last'.pc = "rejected" /\ last'.reply.status = 400
               /\ session' = session
               /\ loops' = loops]_vars

\* Witness of C21: a request was rejected by an active session that is
\* auto-stepping with step_delay 2 and a live loop.
C21_Witness ==
    /\ last.op = "auto" /\ last.pc = "rejected" /\ last.reply.status = 400
    /\ last.before_session.active /\ last.before_session.auto_stepping
    /\ last.before_session.step_delay = 2
    /\ session = last.before_session
    /\ \E l \in LoopIds : loops[l].pc # "none"

\* A request was rejected by a session that is not active.
AutoStartOnInactive ==
    /\ last.op = "auto" /\ last.pc = "rejected"
    /\ ~last.before_session.active /\ session = last.before_session


(***************************************************************************)
(* Properties of the auto-stepping loop, checked under SpecAuto.           *)
(***************************************************************************)

\* Loop l comes to the head of its while loop in this step: it runs for the
\* first time, wakes from its sleep, or ends a tick without sleeping.
AtLoopHead(l) ==
    \/ loops[l].pc \in {"ready", "sleep"} /\ loops'[l] # loops[l]
    \/ /\ loops[l].pc = "tick" /\ AllTasksDone(ticks[l]) /\ ticks'[l] # ticks[l]
       /\ loops'[l].pc # "sleep"

\* The tick loop l starts at its head raises: the session is active and
\* auto-stepping but has no registered agents.
TickRaises(l) ==
    /\ AtLoopHead(l)
    /\ session'.auto_stepping /\ session'.active
    /\ session'.registered_agents = {}

\* C22: a loop whose tick raises does not end: it sleeps for step_delay and
\* then comes to its head again; a loop ends only at its head, when the session
\* is not auto-stepping or not active.
C22_LoopSurvivesErrors ==
    [][\A l \in LoopIds :
        /\ TickRaises(l) => /\ loops'[l].pc = "sleep"
                            /\ loops'[l].sleep_for = Millis(session'.step_delay)
        /\ (loops[l].pc # "none" /\ loops'[l].pc = "none")
                => (AtLoopHead(l) /\ ~(session'.auto_stepping /\ session'.active))]_vars

\* Witness of C22: in an active, auto-stepping session with no registered
\* agents a loop sleeps for step_delay after its tick raised.
C22_Witness ==
    /\ session.active /\ session.auto_stepping
    /\ session.registered_agents = {}
    /\ \E l \in LoopIds : /\ loops[l].pc = "sleep"
                          /\ loops[l].sleep_for = Millis(session.step_delay)


\* Loop l's tick ends without an error: its execute_game_step returns.
LoopTickEnds(l) ==
    /\ loops[l].pc = "tick" /\ AllTasksDone(ticks[l])
    /\ ticks'[l] # ticks[l]

\* C23: when a loop's tick ends without an error, having reported the step
\* duration d under the step delay c, the loop sleeps for c - d if that is
\* positive, with no tick of its own running meanwhile; otherwise it is at its
\* head at once, where it starts the next tick, sleeps because that tick raised,
\* or ends.  Each tick that ends counts as exactly one step.
C23_SleepsForTheRemainder ==
    [][\A l \in LoopIds : LoopTickEnds(l) =>
        /\ session'.step_count = session.step_count + 1
        /\ loops'[l].pc # "none" =>
             IF Millis(session.step_delay) - loops'[l].step_duration > 0
             THEN /\ loops'[l].pc = "sleep"
                  /\ loops'[l].sleep_for =
                         Millis(session.step_delay) - loops'[l].step_duration
                  /\ ticks'[l] = IdleTick
             ELSE /\ loops'[l] = [LoopAfterHead(session')
                                     EXCEPT !.step_duration = loops'[l].step_duration]
                  /\ ticks'[l] = TickAfterHead(session')
        /\ loops'[l].pc = "none" => LoopHead(session') = "exit"]_vars

\* Witness of C23: a loop sleeps for what is left of the step delay after a tick
\* that took less.
C23_Witness ==
    \E l \in LoopIds :
        /\ loops[l].pc = "sleep"
        /\ loops[l].step_duration > 0
        /\ loops[l].sleep_for = Millis(session.step_delay) - loops[l].step_duration
        /\ loops[l].sleep_for < Millis(session.step_delay)

\* A loop is in its next tick at once after a tick that took the step delay or longer.
RestartedAtOnce ==
    \E l \in LoopIds :
        /\ loops[l].pc = "tick"
        /\ loops[l].step_duration >= Millis(session.step_delay)


(***************************************************************************)
(* The servers passed to the provider, checked under SpecDecide.           *)
(***************************************************************************)

\* The provider has been called for the agent block.
ProviderCalled == last.op = "run"

\* The servers the call passed, as a set; none when the argument is None.
ServersPassed ==
    IF last.mcp_servers.given THEN Range(last.mcp_servers.list) ELSE {}

\* C24: the servers passed to the provider's run are exactly the plan server
\* if a binding of the agent block has the tool name plan, together with the
\* search server if a binding has the tool name search; with neither bound no
\* server is passed (the argument is None).
C24_ServersFollowBindings ==
    ProviderCalled =>
        /\ ServersPassed =
              {srv \in {PlanServer, SearchServer} :
                  \E i \in 1..Len(dblock.tool_connections) :
                      \/ srv = PlanServer /\ dblock.tool_connections[i].tool_name = "plan"
                      \/ srv = SearchServer /\ dblock.tool_connections[i].tool_name = "search"}
        /\ last.mcp_servers.given <=> ServersPassed # {}

\* Witness of C24: a block that binds search and not plan has been passed the
\* search server alone.
C24_Witness ==
    /\ ProviderCalled
    /\ \E i \in 1..Len(dblock.tool_connections) : dblock.tool_connections[i].tool_name = "search"
    /\ \A i \in 1..Len(dblock.tool_connections) : dblock.tool_connections[i].tool_name # "plan"
    /\ ServersPassed = {SearchServer}

\* A block that binds neither plan nor search has been passed no server.
NoServersPassed ==
    /\ ProviderCalled
    /\ \A i \in 1..Len(dblock.tool_connections) :
          dblock.tool_connections[i].tool_name \in {"move", "attack"}
    /\ ~last.mcp_servers.given


(***************************************************************************)
(* SpecPlan: the requests of SpecStep for an agent whose program offers    *)
(* plan and move and comes back to its agent block after either.           *)
(***************************************************************************)

ProgramPlan(agent_id) ==
    ProgramSchema(agent_id,
        <<ActionBlock("e1", "onStart", "D"),
          AgentBlock("D", <<ToolConnection("T1", "plan"), ToolConnection("T2", "move")>>),
          ToolBlock("T1", "plan", "D"),
          ToolBlock("T2", "move", "D")>>)

\* The provider's answers: a plan action with no plan, with one plan and with
\* another, a move, and an attack, which the agent block does not offer.
PlanAnswers ==
    {Answer("output", JsonObject(FALSE, "plan", Params(Absent, Absent, p), "r")) :
        p \in {Absent, Str, Str2}}
    \cup {Answer("output", JsonObject(FALSE, "move", Params(Num(5), Num(-10), Absent), "r")),
          Answer("output", JsonObject(FALSE, "attack", EmptyParams, "r"))}

NextPlan ==
    \/ \E a \in StepAgentIds, r \in BOOLEAN : StepAdd(ProgramPlan(a), r)
    \/ \E a \in StepAgentIds, t \in Triggers : StepCall(a, t)
    \/ \E answer \in PlanAnswers : StepAnswer(answer)

SpecPlan == InitStep /\ [][NextPlan]_vars

\* The last request was a step that ended with an action.
StepSucceeded ==
    /\ last.op = "step" /\ last.pc = "done"
    /\ last.reply.status = 200 /\ last.reply.action # None

\* The plan the action of the last step carries; None if it carries none.
PlanOfAction ==
    IF last.reply.parameters.plan = Absent THEN None
    ELSE PlanText(last.reply.parameters.plan)

\* C25 as stated: after every successful step whose tool is plan the agent's
\* current_plan is the plan of that action, and after every other successful
\* step it is what it was before the step.
C25_PlanStepOverwrites ==
    StepSucceeded =>
        IF last.reply.action = "plan"
        THEN agents[last.agent].current_plan = PlanOfAction
        ELSE agents[last.agent].current_plan = last.before[last.agent].current_plan

\* C25, amended: after every successful step whose tool is plan and whose
\* parameters hold a plan the agent's current_plan is that plan, and after every
\* other successful step it is what it was before the step.
C25_PlanStoredWhenGiven ==
    StepSucceeded =>
        IF last.reply.action = "plan" /\ last.reply.parameters.plan # Absent
        THEN agents[last.agent].current_plan = PlanOfAction
        ELSE agents[last.agent].current_plan = last.before[last.agent].current_plan

\* Witness of C25: a plan step has replaced the plan the agent had by another.
C25_Witness ==
    /\ StepSucceeded
    /\ last.reply.action = "plan" /\ last.reply.parameters.plan # Absent
    /\ last.before[last.agent].current_plan \notin {None, PlanOfAction}
    /\ agents[last.agent].current_plan = PlanOfAction

\* A plan step whose action holds no plan has left the agent's plan in place.
PlanStepKeepsPlan ==
    /\ StepSucceeded
    /\ last.reply.action = "plan" /\ last.reply.parameters.plan = Absent
    /\ agents[last.agent].current_plan # None

\* A move step has left the agent's plan in place.
MoveStepKeepsPlan ==
    /\ StepSucceeded
    /\ last.reply.action = "move"
    /\ agents[last.agent].current_plan # None


(***************************************************************************)
(* Properties of add_agent, checked under SpecStep.                        *)
(***************************************************************************)

\* The last request was POST /add-agent and was answered 200.
AddSucceeded == last.op = "add" /\ last.reply.status = 200

\* C26: right after a successful add_agent the agent's current_node is the
\* next of the first onStart action block of its program (a next that is None
\* or empty leaves the agent with no node to run), its past_actions is empty,
\* and its current_plan, last_agent_block and last_executed_tool_block are None.
C26_AgentStartsAfterOnStart ==
    AddSucceeded =>
        LET state == agents[last.agent]
            blocks == last.program.blocks
        IN  /\ \E i \in 1..Len(blocks) :
                  /\ blocks[i].type = "action" /\ blocks[i].action_type = "onStart"
                  /\ \A j \in 1..(i - 1) :
                        ~(blocks[j].type = "action" /\ blocks[j].action_type = "onStart")
                  /\ state.current_node = blocks[i].next
            /\ state.program = last.program
            /\ state.past_actions = <<>>
            /\ state.current_plan = None
            /\ state.last_agent_block = None
            /\ state.last_executed_tool_block = None

\* Witness of C26: an agent was added whose onStart block leads to a block of
\* the program, and the agent is at that block.
C26_Witness ==
    /\ AddSucceeded
    /\ agents[last.agent].current_node = "D"
    /\ \E i \in 1..Len(last.program.blocks) : last.program.blocks[i].id = "D"

\* An agent was added whose onStart block has no successor: it has no node to run.
AddedIdle ==
    /\ AddSucceeded
    /\ ~Truthy(agents[last.agent].current_node)


\* The last request was POST /add-agent with register_in_game, for a valid
\* program and an agent id that was free: the handler called
\* game_client.register_agent, and the call failed.
AddWithFailedRegistration ==
    /\ last.op = "add" /\ last.register_in_game
    /\ ValidateProgram(last.program) = "ok"
    /\ last.agent \notin DOMAIN last.before

\* C27: when the registration in the game that add_agent attempts fails, the
\* request is still answered 200, the agent is in the agents dictionary at the
\* next of its onStart block, and it is not in registered_agents, which is as
\* it was before the request.
C27_FailedRegistrationStillAdds ==
    AddWithFailedRegistration =>
        /\ last.reply.status = 200
        /\ last.agent \in DOMAIN agents
        /\ agents[last.agent].current_node = OnStartBlock(last.program.blocks).next
        /\ last.agent \notin session.registered_agents
        /\ session = last.before_session

\* Witness of C27: an agent was added with register_in_game and is at the
\* block its onStart block leads to.
C27_Witness ==
    /\ AddWithFailedRegistration
    /\ last.reply.status = 200
    /\ agents[last.agent].current_node = "D"


(***************************************************************************)
(* SpecResolve: one raw program of the bounded universe is posted to       *)
(* /add-agent, and the agent it makes, if any, is stepped.                 *)
(***************************************************************************)

\* The provider's answers: a move, an attack (no raw program offers it), an
\* output that is no JSON object, text that is not JSON, a timeout, an error.
ResolveAnswers == Answers \cup {Answer("output", NotJson(FALSE, "I will Move"))}

InitResolve ==
    /\ request \in RawPrograms
    /\ response = NoReply
    /\ dblock = None /\ doutput = None /\ dresult = NoResult
    /\ recorded = <<>> /\ last = NoCall
    /\ agents = <<>>
    /\ session = GameSession
    /\ ticks = [o \in 0..MaxLoops |-> IdleTick]
    /\ loops = [l \in LoopIds |-> NoLoop]
    /\ direct = IdleDirect
    /\ reg = IdleReg
    /\ cleanup = IdleCleanup
    /\ budget = MaxActions

NextResolve ==
    \/ \E r \in BOOLEAN : StepAdd(request, r)
    \/ \E a \in StepAgentIds, t \in Triggers : StepCall(a, t)
    \/ \E answer \in ResolveAnswers : StepAnswer(answer)

SpecResolve == InitResolve /\ [][NextResolve]_vars

\* The last request was a step whose provider call returned an output; the
\* agent block it stepped, and what execute_agent_block made of the output.
StepAnswered == last.op = "step" /\ last.pc = "done" /\ last.answer.kind = "output"
SteppedBlock == BlockById(last.before[last.agent].program.blocks, last.block)
SteppedDecision == DecisionResult(SteppedBlock, last.answer.out)

\* C28: whenever execute_agent_block returns in a step of an agent (whose
\* program passed validation), the tool it returns is the tool_name of a
\* connection of the stepped agent block, the first such connection's tool_id
\* is the id of a block of the program, and the step does not end with the 500
\* "Tool block not found".
C28_ChosenToolResolves ==
    (StepAnswered /\ SteppedDecision.status = "ok") =>
        LET conns == SteppedBlock.tool_connections
            named == {i \in 1..Len(conns) : conns[i].tool_name = SteppedDecision.tool_choice}
        IN  /\ named # {}
            /\ \A i \in named :
                  (\A j \in named : i <= j) =>
                      conns[i].tool_id \in BlockIds(last.before[last.agent].program)
            /\ StepFinish(last.before[last.agent], last.block, last.answer.out).exc
                    # "HTTPException"

\* Witness of C28: the provider chose a tool the agent block does not offer, and
\* the step returned the action of the first offered one.
C28_Witness ==
    /\ StepAnswered /\ SteppedDecision.status = "ok"
    /\ last.answer.out.json = "object"
    /\ last.answer.out.action \notin Range(AvailableTools(SteppedBlock))
    /\ last.reply.status = 200
    /\ last.reply.action = AvailableTools(SteppedBlock)[1]


(***************************************************************************)
(* The frame of a step, checked under Spec.                                *)
(***************************************************************************)

\* The agents whose state a transition changes.
ChangedAgents == {a \in DOMAIN agents : agents'[a] # agents[a]}

\* The agents for which a task of a tick runs in a transition.
TickStepsFor ==
    {a \in DOMAIN agents :
        \E o \in 0..MaxLoops :
            /\ a \in DOMAIN ticks'[o].tasks
            /\ \/ a \notin DOMAIN ticks[o].tasks
               \/ ticks'[o].tasks[a] # ticks[o].tasks[a]}

\* C29: no transition changes the program of an agent, and a transition that
\* changes the state of agents is a step for them: either tasks of a tick run,
\* for these agents, or it is the step of a direct request and one agent alone
\* changes. Such a transition leaves every other agent as it was and does not
\* change active, auto_stepping or registered_agents.
C29_StepTouchesOwnAgentOnly ==
    [][/\ \A a \in DOMAIN agents :
             a \in DOMAIN agents' /\ agents'[a].program = agents[a].program
       /\ ChangedAgents # {} =>
             /\ \/ ChangedAgents \subseteq TickStepsFor
                \/ ticks' = ticks /\ Cardinality(ChangedAgents) = 1
             /\ session'.active = session.active
             /\ session'.auto_stepping = session.auto_stepping
             /\ session'.registered_agents = session.registered_agents]_vars

\* Witness of C29: in one tick the step of one agent has ended with an action
\* while the step of another agent waits for the provider, the other agent's
\* history still empty.
C29_Witness ==
    \E o \in 0..MaxLoops : \E a, b \in DOMAIN ticks[o].tasks :
        /\ a # b
        /\ ticks[o].pc = "gather"
        /\ ticks[o].tasks[a].pc \in {"send", "done"}
        /\ Len(agents[a].past_actions) = 1
        /\ ticks[o].tasks[b].pc = "llm"
        /\ agents[b].past_actions = <<>>


(***************************************************************************)
(* SpecObserve: the requests of SpecStep together with GET /agents-state.  *)
(***************************************************************************)

\* Lines 1003-1009: what get_agents_state reports of every agent.
AgentsStateReply(ags) ==
    [a \in DOMAIN ags |->
        [agent_id |-> a,
         current_node |-> ags[a].current_node,
         last_agent_block |-> ags[a].last_agent_block,
         last_executed_tool_block |-> ags[a].last_executed_tool_block]]

\* A handler that forgets the tool block of every agent once it has reported it.
GetAgentsState_ClearsToolBlock ==
    /\ budget >= 1
    /\ budget' = budget - 1
    /\ agents' = [a \in DOMAIN agents |-> [agents[a] EXCEPT !.last_executed_tool_block = None]]
    /\ UNCHANGED <<session, ticks, loops, direct, reg, cleanup>>

\* GET /agents-state (lines 996-1016): the handler reads and does not write.
GetAgentsState ==
    /\ budget >= 1
    /\ budget' = budget - 1
    /\ UNCHANGED <<agents, session, ticks, loops, direct, reg, cleanup>>

\* GET /agents-state between two other requests; its reply is kept in response.
StepGetState ==
    /\ direct.pc = "idle"
    /\ GetAgentsState
    /\ response' = AgentsStateReply(agents)
    /\ last' = Call("state", None, NoProgram, None, FALSE, agents, session, "done", None,
                    NoAnswer, StepReply(200, None, EmptyParams, None))
    /\ UNCHANGED <<request, dblock, doutput, dresult, recorded>>

NextObserve ==
    \/ \E a \in StepAgentIds, r \in BOOLEAN :
            \E program \in {ProgramA(a), ProgramB(a)} : StepAdd(program, r)
    \/ \E a \in StepAgentIds, t \in Triggers : StepCall(a, t)
    \/ \E answer \in Answers : StepAnswer(answer)
    \/ StepGetState

SpecObserve == InitStep /\ [][NextObserve]_vars

\* A transition in which GET /agents-state is handled.
StateRequest == last'.op = "state" /\ budget' # budget

\* C30: handling GET /agents-state changes neither the agents dictionary nor
\* the session nor any task, loop or request in progress; and when the request
\* before it was GET /agents-state too, so that no step and no add-agent came
\* in between, it reports the same current_node, last_executed_tool_block and
\* last_agent_block of every agent as that request did.
C30_StateRequestReadsOnly ==
    [][StateRequest =>
        /\ agents' = agents /\ session' = session
        /\ ticks' = ticks /\ loops' = loops
        /\ direct' = direct /\ reg' = reg /\ cleanup' = cleanup
        /\ last.op = "state" => response' = response]_vars

\* Witness of C30: GET /agents-state has reported an agent that has stepped:
\* the tool block it applied and the agent block it entered.
C30_Witness ==
    /\ last.op = "state"
    /\ \E a \in DOMAIN agents :
          /\ agents[a].last_executed_tool_block # None
          /\ response[a].last_executed_tool_block = agents[a].last_executed_tool_block
          /\ response[a].last_agent_block = agents[a].last_agent_block
          /\ response[a].current_node = agents[a].current_node


(***************************************************************************)
(* Properties of accepted programs and the blocks a step records, checked  *)
(* under SpecResolve.                                                      *)
(***************************************************************************)

\* Every tool_connection of every agent block of the program has a tool_id
\* that is the id of a tool block whose tool_type is the connection's tool_name.
BindingsPointToTools(program) ==
    \A i \in 1..Len(program.blocks) :
        \A k \in 1..Len(program.blocks[i].tool_connections) :
            LET conn == program.blocks[i].tool_connections[k]
                target == BlockById(program.blocks, conn.tool_id)
            IN  target.type = "tool" /\ target.tool_type = conn.tool_name

\* C31: every tool_connection of an agent's program points to a tool block of
\* the connection's tool_name; and after every step that returned an action
\* last_executed_tool_block is a tool block whose tool_type is that action, and
\* last_agent_block is the agent block the step ran.
C31_BindingsAndRecordedBlocks ==
    \A a \in DOMAIN agents :
        /\ BindingsPointToTools(agents[a].program)
        /\ (SuccessfulStep /\ last.agent = a) =>
              LET applied == BlockById(agents[a].program.blocks,
                                       agents[a].last_executed_tool_block)
              IN  /\ applied.type = "tool"
                  /\ applied.tool_type = last.reply.action
                  /\ agents[a].last_agent_block = last.block

\* A step returned an action and the block recorded as last_executed_tool_block
\* is an action block.
AppliedBlockIsEntry ==
    /\ SuccessfulStep
    /\ BlockById(agents[last.agent].program.blocks,
                 agents[last.agent].last_executed_tool_block).type = "action"


(***************************************************************************)
(* The cursor a successful step leaves, checked under SpecStep.            *)
(***************************************************************************)

\* The block the agent's current_node names after the last request.
CursorBlock ==
    BlockById(agents[last.agent].program.blocks, agents[last.agent].current_node)

\* C32 as stated: after every step that returned an action the agent's
\* current_node is absent or is the id of an agent block.
C32_CursorAtDecisionBlock ==
    SuccessfulStep =>
        \/ ~Truthy(agents[last.agent].current_node)
        \/ CursorBlock.type = "agent"

\* C32, amended: after every step that returned an action the agent's
\* current_node is the next of the block the step applied; it is absent or the
\* id of a block of the program, of any type; and a step without a trigger that
\* follows at a tool block or an entry block is answered 400.
C32_CursorAtSuccessorInProgram ==
    /\ SuccessfulStep =>
          /\ agents[last.agent].current_node =
                BlockById(agents[last.agent].program.blocks,
                          agents[last.agent].last_executed_tool_block).next
          /\ \/ ~Truthy(agents[last.agent].current_node)
             \/ CursorBlock # NoBlock
    /\ (NonAgentStep /\ last.trigger = None /\ Len(StateBefore.past_actions) >= 1) =>
          last.reply.status = 400

\* Witness of C32: a step returned a move and left the cursor at the tool
\* block the applied tool block leads to.
C32_Witness ==
    /\ SuccessfulStep
    /\ last.reply.action = "move"
    /\ agents[last.agent].last_executed_tool_block = "T1"
    /\ agents[last.agent].current_node = "T2"
    /\ CursorBlock.type = "tool"

\* The step after a successful step failed at the tool block that step led to.
StepAfterSuccessFails ==
    /\ NonAgentStep /\ last.trigger = None
    /\ Len(StateBefore.past_actions) >= 1
    /\ ResolvedBlock.type = "tool"
    /\ last.reply.status = 400


(***************************************************************************)
(* Invariants of the session, checked under SpecSession.                   *)
(***************************************************************************)

\* C33: whenever auto_stepping is set the session is active.
C33_AutoSteppingOnlyWhileActive == session.auto_stepping => session.active

\* Cleanup has ended and left auto_stepping set on a session that is not active.
AutoSteppingLeftOn ==
    /\ cleanup.pc = "idle"
    /\ session.auto_stepping /\ ~session.active


\* C34: whenever the session is not active its step_count is 0.
C34_InactiveSessionCountsNothing == ~session.active => session.step_count = 0

\* A game step has ended after cleanup and counted itself on the session that
\* is not active.
StepCountedAfterCleanup ==
    /\ ~session.active /\ session.step_count > 0
    /\ cleanup.pc = "idle"
    /\ \A o \in 0..MaxLoops : ticks[o].pc = "idle"

\* C35: whenever the session is active its registered_agents is not empty.
C35_ActiveSessionHasParticipants ==
    session.active => session.registered_agents # {}

\* register_agents_in_game has ended with 200 after every register_agent
\* raised: the session is active with nobody registered, and a game step on it
\* is answered "No agents registered in game".
SessionStartedWithNobody ==
    /\ last.op = "start" /\ last.pc = "done" /\ last.reply.status = 200
    /\ reg.pc = "idle"
    /\ session.active /\ session.registered_agents = {}
    /\ session.auto_stepping => LoopHead(session) = "raise"

(***************************************************************************)
(* Steps that end in a timeout of the provider, checked under SpecTimeout. *)
(***************************************************************************)

\* The provider's answers to an agent that plans and moves, and a timeout.
TimeoutAnswers == PlanAnswers \cup {Answer("timeout", JsonOther(FALSE))}

NextTimeout ==
    \/ \E a \in StepAgentIds, r \in BOOLEAN : StepAdd(ProgramPlan(a), r)
    \/ \E a \in StepAgentIds, t \in Triggers : StepCall(a, t)
    \/ \E answer \in TimeoutAnswers : StepAnswer(answer)

SpecTimeout == InitStep /\ [][NextTimeout]_vars

\* The step has ended in the 408 of a provider call that timed out.
TimedOutStep ==
    /\ StepEnded
    /\ last.answer.kind = "timeout"
    /\ last.reply.status = 408

\* C36: a step that ends in a decision timeout appends nothing to past_actions,
\* leaves current_plan and last_executed_tool_block as they were, and leaves
\* current_node at the agent block whose decision timed out, so that the next
\* step begins at that same agent block.
C36_TimeoutKeepsDecisionBlock ==
    TimedOutStep =>
        /\ agents[last.agent].past_actions = StateBefore.past_actions
        /\ agents[last.agent].current_plan = StateBefore.current_plan
        /\ agents[last.agent].last_executed_tool_block = StateBefore.last_executed_tool_block
        /\ agents[last.agent].current_node = last.block
        /\ CursorBlock.type = "agent"
        /\ StepBegin(agents[last.agent], None).kind = "await"
        /\ StepBegin(agents[last.agent], None).block = last.block

\* Witness of C36: the decision of an agent with a history, a plan and an
\* applied tool block timed out.
C36_Witness ==
    /\ TimedOutStep
    /\ Len(StateBefore.past_actions) >= 1
    /\ StateBefore.current_plan # None
    /\ StateBefore.last_executed_tool_block # None
    /\ agents[last.agent].current_node = last.block

(***************************************************************************)
(* The game step and the agents' states before it.  SpecReport: agents are *)
(* added, a session is started, and game steps are requested one at a      *)
(* time; `last` holds the agents dictionary the game step found.           *)
(***************************************************************************)

ReportPrograms(agent_id) == {ProgramA(agent_id), ProgramC(agent_id)}

InitReport ==
    /\ EngineInit
    /\ recorded = <<>> /\ last = NoCall
    /\ request = None /\ response = NoReply
    /\ dblock = None /\ doutput = None /\ dresult = NoResult

\* POST /execute-game-step arrives and is accepted.
ReportStep ==
    /\ ManualStep
    /\ last' = Call("tick", None, NoProgram, None, FALSE, agents, session, "await", None,
                    NoAnswer, NoStepReply)
    /\ UNCHANGED <<request, response, dblock, doutput, dresult, recorded>>

\* execute_game_step returns its report.
ReportStepFinish ==
    /\ ManualStepFinish
    /\ last' = [last EXCEPT !.pc = "done", !.reply = StepReply(200, None, EmptyParams, None)]
    /\ UNCHANGED <<request, response, dblock, doutput, dresult, recorded>>

NextReport ==
    \/ \E a \in AgentIds, r \in BOOLEAN : \E program \in ReportPrograms(a) :
            AddAgent(program, r) /\ UNCHANGED pure_vars
    \/ RegisterStart /\ UNCHANGED pure_vars
    \/ \E ok \in BOOLEAN : RegisterReturn(ok) /\ UNCHANGED pure_vars
    \/ ReportStep
    \/ \E S \in SUBSET AgentIds : FetchReturn(0, S) /\ UNCHANGED pure_vars
    \/ TasksStart(0) /\ UNCHANGED pure_vars
    \/ \E a \in AgentIds : \E answer \in AutoAnswers : TaskAnswer(0, a, answer) /\ UNCHANGED pure_vars
    \/ \E a \in AgentIds, ok \in BOOLEAN : TaskSendReturn(0, a, ok) /\ UNCHANGED pure_vars
    \/ ReportStepFinish

SpecReport == InitReport /\ [][NextReport]_vars

\* The task of agent a in the game step in flight has ended with an error entry.
ErrorEntryOf(a) ==
    /\ last.op = "tick" /\ last.pc = "await"
    /\ ticks[0].pc = "gather"
    /\ a \in ticks[0].registered /\ a \in DOMAIN last.before
    /\ TaskOf(0, a).pc = "done"
    /\ ~TaskOf(0, a).result.raised
    /\ TaskOf(0, a).result.entry.kind = "error"

\* C37: an agent whose entry in the report of a game step is an error has the
\* current_node and the past_actions it had when the game step began; so a
\* failed send_command leaves no cursor advance and no history record.
C37_ErrorEntryKeepsAgent ==
    \A a \in AgentIds :
        ErrorEntryOf(a) =>
            /\ agents[a].current_node = last.before[a].current_node
            /\ agents[a].past_actions = last.before[a].past_actions

\* send_command raised for an agent: its entry is an error, and the record of
\* the action is in its history and its cursor is where the action led.
SendFailureKeepsAdvance ==
    \E a \in AgentIds :
        /\ ErrorEntryOf(a)
        /\ TaskOf(0, a).outcome = "send_failed"
        /\ agents[a].past_actions =
              AppendHistory(last.before[a].past_actions, ActionRecord(TaskOf(0, a).decision))
        /\ agents[a].current_node = TaskOf(0, a).next_node
        /\ agents[a].current_node # last.before[a].current_node

(***************************************************************************)
(* SpecStop: one agent, a session, auto-stepping started and stopped; the  *)
(* loop tasks and the game steps they run are scheduled fairly.            *)
(***************************************************************************)

StopAgentIds == {"a1"}

\* POST /stop-auto-stepping arrives.
StopCall ==
    /\ StopAutoStepping
    /\ last' = SessionCall("stop", session, "done", 200)
    /\ UNCHANGED <<request, response, dblock, doutput, dresult, recorded>>

\* A step of loop task l: it runs or wakes, or the game step it awaits goes on.
LoopProgress(l) ==
    \/ LoopRun(l)
    \/ \E S \in SUBSET StopAgentIds : FetchReturn(l, S)
    \/ TasksStart(l)
    \/ \E a \in StopAgentIds : \E answer \in AutoAnswers : TaskAnswer(l, a, answer)
    \/ \E a \in StopAgentIds, ok \in BOOLEAN : TaskSendReturn(l, a, ok)
    \/ \E d \in Durations : LoopStepFinish(l, d)

NextStop ==
    \/ \E a \in StopAgentIds, r \in BOOLEAN : AddAgent(ProgramA(a), r) /\ UNCHANGED pure_vars
    \/ RegisterStart /\ UNCHANGED pure_vars
    \/ \E ok \in BOOLEAN : RegisterReturn(ok) /\ UNCHANGED pure_vars
    \/ \E d \in StepDelays : SessionStartAuto(d)
    \/ StopCall
    \/ \E l \in LoopIds : LoopProgress(l) /\ UNCHANGED pure_vars

\* The event loop runs every task that is ready: a loop task that can take a
\* step takes it, a sleep ends, and every await of a game step returns or
\* raises (the provider call is bounded by its timeout).
SpecStop ==
    /\ InitReport
    /\ [][NextStop]_vars
    /\ \A l \in LoopIds : WF_vars(LoopProgress(l) /\ UNCHANGED pure_vars)

LoopsExited == \A l \in LoopIds : loops[l].pc = "none"

\* A loop task begins a game step.
LoopStartsStep ==
    \E l \in LoopIds : loops[l].pc # "tick" /\ loops'[l].pc = "tick"

\* C38: from every state in which auto_stepping is off (after stop_auto_stepping),
\* unless start_auto_stepping sets it again, every auto_step_loop task
\* eventually exits; and while it stays off no loop task begins a game step,
\* so the game step in flight at the stop is the last one.
C38_StoppedLoopExits ==
    /\ (~session.auto_stepping) ~> (session.auto_stepping \/ LoopsExited)
    /\ [][(~session.auto_stepping /\ ~session'.auto_stepping) => ~LoopStartsStep]_vars

\* Witness of C38: stop_auto_stepping was the last request and it arrived while
\* auto-stepping was on; the loop task is still in the game step it had begun.
C38_Witness ==
    /\ last.op = "stop" /\ last.before_session.auto_stepping
    /\ ~session.auto_stepping /\ session.active
    /\ \E l \in LoopIds : loops[l].pc = "tick" /\ ticks[l].pc = "gather"

\* The loop has exited after the stop, with a game step counted.
LoopExitedAfterStop ==
    /\ last.op = "stop" /\ last.before_session.auto_stepping
    /\ LoopsExited
    /\ session.step_count >= 1

(***************************************************************************)
(* The registered agents and the agents dictionary, checked under Spec.    *)
(***************************************************************************)

\* C39: in every reachable state registered_agents of the session, and the
\* list of registered agents every game step in flight took from it, hold only
\* keys of the agents dictionary, and no task of a game step has ended with
\* the "Agent not in backend" entry.
C39_RegisteredAreAgents ==
    /\ session.registered_agents \subseteq DOMAIN agents
    /\ \A o \in TickIds :
          /\ ticks[o].registered \subseteq DOMAIN agents
          /\ Gathering(o) =>
                \A a \in ticks[o].registered : TaskOf(o, a).outcome # "nobackend"

\* Witness of C39: both agents are registered in the session and a game step
\* has run process_single_agent_step for both, past the test of line 777 for
\* one of them.
C39_Witness ==
    /\ session.registered_agents = AgentIds
    /\ Gathering(0)
    /\ ticks[0].registered = AgentIds
    /\ \E a \in AgentIds : TaskOf(0, a).outcome \notin {"pending", "nostate"}

====
